---- MODULE Spec2Model ----
(***************************************************************************)
(* The Archive (frontend): clearance model, route guard, agent roster      *)
(* administration and the person details view.                             *)
(*                                                                         *)
(* Three specifications share this module:                                 *)
(*   SpecGuard    hasClearance / ProtectedRoute applied to arbitrary       *)
(*                (user, need) inputs              (lib/api.ts, auth part) *)
(*   Spec         the App router, the session and the AgentsPage           *)
(*   SpecDetails  the PersonDetails component rendering one record         *)
(* Each specification leaves the variables of the others at their idle     *)
(* values.                                                                 *)
(***************************************************************************)
EXTENDS Integers, Sequences, FiniteSets, Bags, TLC

VARIABLES
  \* ---- guard calls (SpecGuard)
  gUser,            \* the `user` argument: an agent or NoUser (null)
  gNeed,            \* the `need` argument: a key of ORDER
  gHas,             \* result of hasClearance(gUser, gNeed): "unset", "true", "false"
  gOutcome,         \* element returned by ProtectedRoute: "unset", "/login", "/home", "children"
  \* ---- App (Spec)
  user,             \* App state `user`
  loadingUser,      \* App state `loadingUser`
  storedUser,       \* localStorage item "user"
  path,             \* router location
  nav,              \* last route decision taken by the router: [target, who, outcome]
  authToken,        \* lib/api.ts module variable `authToken` (NoToken = null)
  storedToken,      \* localStorage item "token" (NoToken = absent)
  \* ---- AgentsPage (Spec)
  agents,           \* AgentsPage state `agents` (row ids)
  loading,          \* AgentsPage state `loading`
  error,            \* AgentsPage state `error` (set or not)
  adding,           \* AgentsPage state `adding`  (AddAgentModal open)
  editing,          \* AgentsPage state `editing` (row id, 0 = null)
  pendingDeleteId,  \* AgentsPage state `pendingDeleteId` (row id, 0 = null)
  deleting,         \* AgentsPage state `deleting`: 0 = false, else the id doDelete was called with
  addSaving,        \* AddAgentModal state `saving`
  editSaving,       \* EditAgentModal state `saving`
  agentsReqs,       \* requests sent to /api/agents: <<method, clearance of the session agent>>
  uiEvent,          \* last control of the roster page the viewer clicked
  \* ---- PersonDetails (SpecDetails)
  person,           \* prop `person` (NoPerson when the details view is closed)
  viewerClearance,  \* prop `viewerClearance` (Undefined when the caller omits it)
  allowed,          \* PersonDetails const `allowed` of the current render
  view,             \* the rendered element tree, slot by slot
  previewUrl,       \* PersonDetails state `previewUrl`
  \* ---- AddAgentModal / EditAgentModal (SpecForms)
  modal,            \* which roster form is open: "none", "add", "edit"
  agent,            \* EditAgentModal prop `agent` (NoAgent when null)
  name,             \* form state `name`
  username,         \* form state `username`
  password,         \* form state `password`
  rank,             \* form state `rank`
  clearance,        \* form state `clearance`
  saving,           \* form state `saving`
  formError,        \* form state `error`
  agentReq,         \* the POST/PUT /api/agents request in flight (NoReq when none)
  \* ---- IntelFilesPage / IntelDetailsModal (SpecIntel)
  intelDb,          \* the report as the backend stores it
  intelData,        \* IntelFilesPage state `intelData` (the one report; NoDoc before the load)
  selectedIntel,    \* IntelFilesPage state `selectedIntel` (NoDoc = null)
  record,           \* IntelDetailsModal state `record` (NoDoc while unmounted)
  modalLoading,     \* IntelDetailsModal state `loading`
  flagBusy,         \* IntelDetailsModal state `flagBusy`
  hpBusy,           \* IntelDetailsModal state `hpBusy`
  ops,              \* the modal's asynchronous calls in flight (a bag)
  editingIntel,     \* IntelFilesPage state `editingIntel` (NoDoc = null)
  eTitle,           \* IntelFilesPage state `eTitle`
  intelEditSaving,  \* IntelFilesPage state `editSaving`
  saveReq,          \* body of the PUT /api/intel/{id} saveEdit has in flight (NoDoc when none)
  \* ---- SearchPage / PersonsOfInterestPage with NewEntryForm (SpecEntry)
  peopleDb,         \* the person records as the backend stores them (index = id)
  storedAgent,      \* localStorage item "agent"
  results,          \* SearchPage state `results` / the POI page's people list
  priorityBusy,     \* PersonDetails state `priorityBusy`
  calls,            \* priority and save requests in flight (a bag)
  editingPerson,    \* SearchPage state `editingPerson` (NoEdit = null)
  formData,         \* NewEntryForm state `formData` (NoEdit while unmounted)
  \* ---- SearchPage queries (SpecSearch)
  query,            \* SearchPage state `query`, a text
  searchParam,      \* the "query" parameter of the location ("" trimmed: <<>>)
  timer,            \* the debounce timeout: "unset" before mount, "pending", "idle"
  searching,        \* SearchPage state `searching`
  issued,           \* the /api/all and /api/search requests sent, in order
  \* ---- Login (SpecLogin)
  loginUsername,    \* Login state `username`, a text
  loginPassword,    \* Login state `password`, a text
  loginError,       \* Login state `error` ("" = no message)
  loginReqs         \* the /api/login requests in flight, by slot, each with its response

guardVars   == <<gUser, gNeed, gHas, gOutcome>>
appVars     == <<user, loadingUser, storedUser, path, nav, authToken,
                 storedToken>>
agentsVars  == <<agents, loading, error, adding, editing, pendingDeleteId,
                 deleting, addSaving, editSaving, agentsReqs, uiEvent>>
detailsVars == <<person, viewerClearance, allowed, view, previewUrl>>
formVars    == <<modal, agent, name, username, password, rank, clearance,
                 saving, formError, agentReq>>
\* the groups added after the first four
intelVars   == <<intelDb, intelData, selectedIntel, record, modalLoading,
                 flagBusy, hpBusy, ops, editingIntel, eTitle, intelEditSaving,
                 saveReq>>
entryVars   == <<peopleDb, storedAgent, results, priorityBusy, calls,
                 editingPerson, formData>>
searchVars  == <<query, searchParam, timer, searching, issued>>
loginVars   == <<loginUsername, loginPassword, loginError, loginReqs>>
restVars    == <<formVars, intelVars, entryVars, searchVars, loginVars>>
oldVars     == <<guardVars, appVars, agentsVars, detailsVars>>
vars        == <<oldVars, restVars>>

\* JavaScript `undefined` for a string-valued property
Undefined == "undefined"

(***************************************************************************)
(* Agents and the clearance order (lib/api.ts, auth part)                  *)
(***************************************************************************)

\* null for `Agent | null`
NoUser == [id |-> "", name |-> "", clearance |-> ""]

\* an agent record as the login response carries it
AgentOf(c) == [id |-> c, name |-> c, clearance |-> c]

ORDER_swapped ==
  [c \in {"Minimal", "Restricted", "Operational", "TopSecret", "Redline"} |->
     CASE c = "Minimal"     -> 0
       [] c = "Restricted"  -> 2
       [] c = "Operational" -> 1
       [] c = "TopSecret"   -> 3
       [] c = "Redline"     -> 4]

ORDER ==
  [c \in {"Minimal", "Restricted", "Operational", "TopSecret", "Redline"} |->
     CASE c = "Minimal"     -> 0
       [] c = "Restricted"  -> 1
       [] c = "Operational" -> 2
       [] c = "TopSecret"   -> 3
       [] c = "Redline"     -> 4]

\* ORDER[user.clearance] ?? -1 (and the variant that falls back to rank 0)
ClearanceRank_zero(c) == IF c \in DOMAIN ORDER THEN ORDER[c] ELSE 0

ClearanceRank(c) == IF c \in DOMAIN ORDER THEN ORDER[c] ELSE -1

hasClearance_strict(u, need) ==
  IF u = NoUser THEN FALSE ELSE ClearanceRank(u.clearance) > ORDER[need]

hasClearance(u, need) ==
  IF u = NoUser THEN FALSE ELSE ClearanceRank(u.clearance) >= ORDER[need]

ProtectedRoute_nologin(u, need) ==
  IF ~hasClearance(u, need) THEN "/home" ELSE "children"

\* the element ProtectedRoute returns: <Navigate to=...> or its children
ProtectedRoute(u, need) ==
  IF u = NoUser THEN "/login"
  ELSE IF ~hasClearance(u, need) THEN "/home"
  ELSE "children"

\* clearance strings an agent record can carry that ORDER does not know:
\* values the roster forms assign, a misspelling, and a missing property
UnknownClearances == {"Top Secret", "Confidential", "not-a-real-tier", Undefined}

GuardUsers == {NoUser} \cup {AgentOf(c) : c \in DOMAIN ORDER \cup UnknownClearances}

BoolStr(b) == IF b THEN "true" ELSE "false"

GuardIdle ==
  /\ gUser = NoUser
  /\ gNeed = "Minimal"
  /\ gHas = "unset"
  /\ gOutcome = "unset"

\* a caller picks the arguments of the next guard call
GuardInput(u, need) ==
  /\ UNCHANGED <<appVars, agentsVars, detailsVars, restVars>>
  /\ gUser' = u
  /\ gNeed' = need
  /\ gHas' = "unset"
  /\ gOutcome' = "unset"

CallHasClearance ==
  /\ UNCHANGED <<appVars, agentsVars, detailsVars, restVars>>
  /\ gHas = "unset"
  /\ gHas' = BoolStr(hasClearance(gUser, gNeed))
  /\ UNCHANGED <<gUser, gNeed, gOutcome>>

RenderProtectedRoute ==
  /\ UNCHANGED <<appVars, agentsVars, detailsVars, restVars>>
  /\ gOutcome = "unset"
  /\ gOutcome' = ProtectedRoute(gUser, gNeed)
  /\ UNCHANGED <<gUser, gNeed, gHas>>

(***************************************************************************)
(* App router and session (App.tsx, Home.tsx, Login.tsx)                   *)
(***************************************************************************)

ProtectedPaths == {"/search", "/poi", "/intel", "/agents", "/profile"}

\* "/" stands for every location the route table does not list (path="*")
Paths == {"/login", "/home", "/"} \cup ProtectedPaths

RouteNeed_agentsOperational ==
  [p \in ProtectedPaths |->
     CASE p = "/search"  -> "Minimal"
       [] p = "/poi"     -> "Restricted"
       [] p = "/intel"   -> "Operational"
       [] p = "/agents"  -> "Operational"
       [] p = "/profile" -> "Minimal"]

\* the `need` prop of each <ProtectedRoute> in the route table
RouteNeed ==
  [p \in ProtectedPaths |->
     CASE p = "/search"  -> "Minimal"
       [] p = "/poi"     -> "Restricted"
       [] p = "/intel"   -> "Operational"
       [] p = "/agents"  -> "TopSecret"
       [] p = "/profile" -> "Minimal"]

\* clearances of the accounts that can log in
LoginClearances == DOMAIN ORDER \cup {"Top Secret"}

\* localStorage "user": absent, JSON.stringify(agent), or text JSON.parse rejects
NoItem == [kind |-> "none", agent |-> NoUser]
CorruptItem == [kind |-> "corrupt", agent |-> NoUser]
StoredJson(u) == [kind |-> "json", agent |-> u]

\* the bearer token of a login response; null / an absent item
NoToken == <<>>
TokenOf(u) == <<"token", u.id>>

\* withAuth: the Authorization header it sets on a request
NoHeader == <<>>
withAuth(token) == IF token # NoToken THEN <<"Bearer">> \o token ELSE NoHeader

\* the element the matched route renders for the location p, followed through
\* the <Navigate> redirects and HomePage's redirect effect until it settles
\* (and the variant that mounts the children of a route before deciding)
RouteOnce_childrenFirst(p, u, ld) ==
  IF p = "/login" THEN p
  ELSE IF p = "/home" THEN (IF u = NoUser /\ ~ld THEN "/" ELSE p)
  ELSE IF p \in ProtectedPaths THEN p
  ELSE (IF u # NoUser THEN "/home" ELSE "/login")

RouteOnce(p, u, ld) ==
  IF p = "/login" THEN p
  ELSE IF p = "/home" THEN (IF u = NoUser /\ ~ld THEN "/" ELSE p)
  ELSE IF p \in ProtectedPaths THEN
    LET el == ProtectedRoute(u, RouteNeed[p]) IN IF el = "children" THEN p ELSE el
  ELSE (IF u # NoUser THEN "/home" ELSE "/login")

\* (the variant that follows one redirect only)
Resolve_once(p, u, ld) == RouteOnce(p, u, ld)

Resolve(p, u, ld) ==
  LET p1 == RouteOnce(p, u, ld)
      p2 == RouteOnce(p1, u, ld)
      p3 == RouteOnce(p2, u, ld)
  IN  p3

\* the decision the router took for a requested location
Decision(p, u) ==
  IF p \in ProtectedPaths
    THEN [target |-> p, who |-> u, outcome |-> ProtectedRoute(u, RouteNeed[p])]
    ELSE [target |-> p, who |-> u, outcome |-> "unguarded"]

NoNav == [target |-> "", who |-> NoUser, outcome |-> "none"]

(***************************************************************************)
(* AgentsPage (Agents/AgentsPage.tsx and its modals)                       *)
(***************************************************************************)

\* bound on the roster rows the server returns or creates
MaxRows == 2

RowIds == 1..MaxRows

canAdminAgents_topSecret(u) == hasClearance(u, "TopSecret")

\* user?.clearance === "Redline"
canAdminAgents(u) == u # NoUser /\ u.clearance = "Redline"

\* the agent cards are rendered (`content` is the grid)
CardsRendered == ~loading /\ ~error /\ agents # {}

\* the Add / Edit / Delete buttons as rendered for the session agent
AddButton(u) == [present |-> TRUE, disabled |-> ~canAdminAgents(u)]
CardButtons(u) == [present |-> CardsRendered, disabled |-> ~canAdminAgents(u)]

AgentsPageUnmounted ==
  /\ agents = {}
  /\ loading = TRUE
  /\ error = FALSE
  /\ adding = FALSE
  /\ editing = 0
  /\ pendingDeleteId = 0
  /\ deleting = 0
  /\ addSaving = FALSE
  /\ editSaving = FALSE
  /\ uiEvent = "none"

\* useState initial values; the load effect sends GET /api/agents
AgentsPageMount(u) ==
  /\ agents' = {}
  /\ loading' = TRUE
  /\ error' = FALSE
  /\ adding' = FALSE
  /\ editing' = 0
  /\ pendingDeleteId' = 0
  /\ deleting' = 0
  /\ addSaving' = FALSE
  /\ editSaving' = FALSE
  /\ uiEvent' = "none"
  /\ agentsReqs' = agentsReqs \cup {<<"GET", u.clearance>>}

AgentsPageUnmount ==
  /\ agents' = {}
  /\ loading' = TRUE
  /\ error' = FALSE
  /\ adding' = FALSE
  /\ editing' = 0
  /\ pendingDeleteId' = 0
  /\ deleting' = 0
  /\ addSaving' = FALSE
  /\ editSaving' = FALSE
  /\ uiEvent' = "none"
  /\ UNCHANGED agentsReqs

\* the router moves from `path` to the location np
Route(np, u) ==
  /\ path' = np
  /\ IF np = "/agents" /\ path # "/agents" THEN AgentsPageMount(u)
     ELSE IF np # "/agents" THEN AgentsPageUnmount
     ELSE UNCHANGED agentsVars

AppInit ==
  /\ user = NoUser
  /\ loadingUser = TRUE
  /\ storedUser \in {NoItem, CorruptItem} \cup {StoredJson(AgentOf(c)) : c \in LoginClearances}
  /\ path \in Paths
  /\ nav = NoNav
  /\ storedToken \in {NoToken} \cup
       (IF storedUser.kind = "json" THEN {TokenOf(storedUser.agent)} ELSE {})
  /\ authToken = storedToken
  /\ agentsReqs = {}
  /\ AgentsPageUnmounted

\* first commit: the routes render with user = null (their redirect effects
\* run first), then App's mount effect restores the stored session
AppMount ==
  /\ UNCHANGED <<guardVars, detailsVars, restVars>>
  /\ loadingUser
  /\ LET first == Resolve(path, NoUser, TRUE)
         u == IF storedUser.kind = "json" THEN storedUser.agent ELSE NoUser
     IN  /\ user' = u
         /\ storedUser' = IF storedUser.kind = "corrupt" THEN NoItem ELSE storedUser
         /\ nav' = Decision(path, NoUser)
         /\ Route(Resolve(first, u, FALSE), u)
  /\ loadingUser' = FALSE
  /\ UNCHANGED <<authToken, storedToken>>

\* navigate(p): a button, a link or the address bar of the running app
GoTo(p) ==
  /\ UNCHANGED <<guardVars, detailsVars, restVars>>
  /\ ~loadingUser
  /\ nav' = Decision(p, user)
  /\ Route(Resolve(p, user, FALSE), user)
  /\ UNCHANGED <<user, loadingUser, storedUser, authToken, storedToken>>

\* Login.handleLogin with a response carrying user c, then onLogin and navigate("/home")
LoginOk(c) ==
  /\ UNCHANGED <<guardVars, detailsVars, restVars>>
  /\ ~loadingUser
  /\ path = "/login"
  /\ user' = AgentOf(c)
  /\ storedUser' = StoredJson(AgentOf(c))
  /\ nav' = Decision("/home", AgentOf(c))
  /\ Route("/home", AgentOf(c))
  /\ UNCHANGED <<loadingUser, authToken, storedToken>>

\* the Login that expects {user, token}: onLogin, the "user" and "token"
\* items, api.setToken, navigate("/home")
LoginToken(c) ==
  /\ UNCHANGED <<guardVars, detailsVars, restVars>>
  /\ ~loadingUser
  /\ path = "/login"
  /\ user' = AgentOf(c)
  /\ storedUser' = StoredJson(AgentOf(c))
  /\ storedToken' = TokenOf(AgentOf(c))
  /\ authToken' = TokenOf(AgentOf(c))
  /\ nav' = Decision("/home", AgentOf(c))
  /\ Route("/home", AgentOf(c))
  /\ UNCHANGED loadingUser

\* HomePage.handleLogout
Logout ==
  /\ UNCHANGED <<guardVars, detailsVars, restVars>>
  /\ ~loadingUser
  /\ path = "/home"
  /\ user # NoUser
  /\ storedUser' = NoItem
  /\ user' = NoUser
  /\ nav' = Decision("/", NoUser)
  /\ Route(Resolve("/", NoUser, FALSE), NoUser)
  /\ UNCHANGED <<loadingUser, authToken, storedToken>>

\* the HomePage.handleLogout that posts /api/logout and then removes the
\* "user" and "token" items; api.clearToken is not called
LogoutToken ==
  /\ UNCHANGED <<guardVars, detailsVars, restVars>>
  /\ ~loadingUser
  /\ path = "/home"
  /\ user # NoUser
  /\ storedUser' = NoItem
  /\ storedToken' = NoToken
  /\ user' = NoUser
  /\ nav' = Decision("/", NoUser)
  /\ Route(Resolve("/", NoUser, FALSE), NoUser)
  /\ UNCHANGED <<loadingUser, authToken>>

OnAgentsPage == ~loadingUser /\ path = "/agents"

\* GET /api/agents answered
AgentsLoaded(rows) ==
  /\ UNCHANGED <<guardVars, appVars, detailsVars, restVars>>
  /\ OnAgentsPage /\ loading
  /\ agents' = rows
  /\ loading' = FALSE
  /\ UNCHANGED <<error, adding, editing, pendingDeleteId, deleting, addSaving,
                 editSaving, agentsReqs, uiEvent>>

AgentsLoadFailed ==
  /\ UNCHANGED <<guardVars, appVars, detailsVars, restVars>>
  /\ OnAgentsPage /\ loading
  /\ error' = TRUE
  /\ loading' = FALSE
  /\ UNCHANGED <<agents, adding, editing, pendingDeleteId, deleting, addSaving,
                 editSaving, agentsReqs, uiEvent>>

\* click on "Add Agent": onClick exists only on the enabled button
ClickAdd ==
  /\ UNCHANGED <<guardVars, appVars, detailsVars, restVars>>
  /\ OnAgentsPage
  /\ uiEvent' = "add"
  /\ adding' = IF canAdminAgents(user) THEN TRUE ELSE adding
  /\ UNCHANGED <<agents, loading, error, editing, pendingDeleteId, deleting,
                 addSaving, editSaving, agentsReqs>>

ClickEdit(id) ==
  /\ UNCHANGED <<guardVars, appVars, detailsVars, restVars>>
  /\ OnAgentsPage /\ CardsRendered /\ id \in agents
  /\ uiEvent' = "edit"
  /\ editing' = IF canAdminAgents(user) THEN id ELSE editing
  /\ UNCHANGED <<agents, loading, error, adding, pendingDeleteId, deleting,
                 addSaving, editSaving, agentsReqs>>

ClickDelete(id) ==
  /\ UNCHANGED <<guardVars, appVars, detailsVars, restVars>>
  /\ OnAgentsPage /\ CardsRendered /\ id \in agents
  /\ uiEvent' = "delete"
  /\ pendingDeleteId' = IF canAdminAgents(user) THEN id ELSE pendingDeleteId
  /\ UNCHANGED <<agents, loading, error, adding, editing, deleting,
                 addSaving, editSaving, agentsReqs>>

\* AddAgentModal.handleSubmit with a form that passes canSubmit
AddSubmit ==
  /\ UNCHANGED <<guardVars, appVars, detailsVars, restVars>>
  /\ OnAgentsPage /\ adding /\ ~addSaving
  /\ addSaving' = TRUE
  /\ agentsReqs' = agentsReqs \cup {<<"POST", user.clearance>>}
  /\ UNCHANGED <<agents, loading, error, adding, editing, pendingDeleteId,
                 deleting, editSaving, uiEvent>>

\* POST answered: onCreated + onClose on success, the error text otherwise
AddResponse(ok, id) ==
  /\ UNCHANGED <<guardVars, appVars, detailsVars, restVars>>
  /\ OnAgentsPage /\ addSaving
  /\ IF ok THEN id \in RowIds \ agents ELSE id = 1
  /\ addSaving' = FALSE
  /\ agents' = IF ok THEN agents \cup {id} ELSE agents
  /\ adding' = IF ok THEN FALSE ELSE adding
  /\ UNCHANGED <<loading, error, editing, pendingDeleteId, deleting,
                 editSaving, agentsReqs, uiEvent>>

\* onClose of the add modal (Cancel)
CloseAdd ==
  /\ UNCHANGED <<guardVars, appVars, detailsVars, restVars>>
  /\ OnAgentsPage /\ adding /\ ~addSaving
  /\ adding' = FALSE
  /\ UNCHANGED <<agents, loading, error, editing, pendingDeleteId, deleting,
                 addSaving, editSaving, agentsReqs, uiEvent>>

\* EditAgentModal.handleSubmit with a form that passes canSubmit
EditSubmit ==
  /\ UNCHANGED <<guardVars, appVars, detailsVars, restVars>>
  /\ OnAgentsPage /\ editing # 0 /\ ~editSaving
  /\ editSaving' = TRUE
  /\ agentsReqs' = agentsReqs \cup {<<"PUT", user.clearance>>}
  /\ UNCHANGED <<agents, loading, error, adding, editing, pendingDeleteId,
                 deleting, addSaving, uiEvent>>

EditResponse(ok) ==
  /\ UNCHANGED <<guardVars, appVars, detailsVars, restVars>>
  /\ OnAgentsPage /\ editSaving
  /\ editSaving' = FALSE
  /\ editing' = IF ok THEN 0 ELSE editing
  /\ UNCHANGED <<agents, loading, error, adding, pendingDeleteId, deleting,
                 addSaving, agentsReqs, uiEvent>>

CloseEdit ==
  /\ UNCHANGED <<guardVars, appVars, detailsVars, restVars>>
  /\ OnAgentsPage /\ editing # 0 /\ ~editSaving
  /\ editing' = 0
  /\ UNCHANGED <<agents, loading, error, adding, pendingDeleteId, deleting,
                 addSaving, editSaving, agentsReqs, uiEvent>>

\* "Yes, Delete" in ConfirmDeleteModal: doDelete(pendingDeleteId) up to the await
ConfirmDelete ==
  /\ UNCHANGED <<guardVars, appVars, detailsVars, restVars>>
  /\ OnAgentsPage /\ pendingDeleteId # 0 /\ deleting = 0
  /\ deleting' = pendingDeleteId
  /\ agentsReqs' = agentsReqs \cup {<<"DELETE", user.clearance>>}
  /\ UNCHANGED <<agents, loading, error, adding, editing, pendingDeleteId,
                 addSaving, editSaving, uiEvent>>

\* DELETE answered: the row is dropped on success; finally closes the modal
DeleteResponse(ok) ==
  /\ UNCHANGED <<guardVars, appVars, detailsVars, restVars>>
  /\ OnAgentsPage /\ deleting # 0
  /\ agents' = IF ok THEN agents \ {deleting} ELSE agents
  /\ deleting' = 0
  /\ pendingDeleteId' = 0
  /\ UNCHANGED <<loading, error, adding, editing, addSaving, editSaving,
                 agentsReqs, uiEvent>>

\* onCancel: the Cancel button, or Escape (which is not disabled while busy)
CancelDelete ==
  /\ UNCHANGED <<guardVars, appVars, detailsVars, restVars>>
  /\ OnAgentsPage /\ pendingDeleteId # 0
  /\ pendingDeleteId' = 0
  /\ UNCHANGED <<agents, loading, error, adding, editing, deleting,
                 addSaving, editSaving, agentsReqs, uiEvent>>

(***************************************************************************)
(* PersonDetails (components/PersonDetails/PersonDetails.tsx)              *)
(***************************************************************************)

ACCESS_RANK_low ==
  [a \in {"minimal", "confidential", "restricted", "classified",
          "operational", "topsecret", "redline"} |->
     CASE a = "minimal"      -> 0
       [] a = "confidential" -> 0
       [] a = "restricted"   -> 1
       [] a = "classified"   -> 1
       [] a = "operational"  -> 2
       [] a = "topsecret"    -> 2
       [] a = "redline"      -> 3]

ACCESS_RANK ==
  [a \in {"minimal", "confidential", "restricted", "classified",
          "operational", "topsecret", "redline"} |->
     CASE a = "minimal"      -> 0
       [] a = "confidential" -> 1
       [] a = "restricted"   -> 2
       [] a = "classified"   -> 3
       [] a = "operational"  -> 4
       [] a = "topsecret"    -> 5
       [] a = "redline"      -> 6]

CLEARANCE_RANK ==
  [c \in {"public", "agent", "handler", "omega"} |->
     CASE c = "public"  -> 0
       [] c = "agent"   -> 1
       [] c = "handler" -> 2
       [] c = "omega"   -> 3]

\* a default parameter value: `viewer: Clearance = "agent"`
DefaultViewer(v) == IF v = Undefined THEN "agent" ELSE v

\* viewerRank >= needed; a lookup that misses gives undefined, and a
\* comparison with undefined is false
canView(p, viewer) ==
  LET level == IF p.access_level = Undefined THEN "minimal" ELSE p.access_level
      v == DefaultViewer(viewer)
  IN  IF level \in DOMAIN ACCESS_RANK /\ v \in DOMAIN CLEARANCE_RANK
        THEN CLEARANCE_RANK[v] >= ACCESS_RANK[level]
        ELSE FALSE

\* String.prototype.toLowerCase on the flag texts of the model
toLowerCase(f) ==
  CASE f = "High Priority" -> "high priority"
    [] f = "HIGH PRIORITY" -> "high priority"
    [] f = "Person of Interest" -> "person of interest"
    [] f = "Watch" -> "watch"
    [] OTHER -> f

isHighPriority(p) ==
  \E i \in DOMAIN p.internal_flags : toLowerCase(p.internal_flags[i]) = "high priority"

\* rendered elements: nothing (null / false), a value, or the redaction bar
Null == <<"null">>
Shown(label, v) == <<"shown", label, v>>
Redacted(label) == <<"redacted", label, "REDACTED">>
ListRow(label, items) == IF items = <<>> THEN Null ELSE Shown(label, items)

\* text fields: "" stands for an absent (or empty) value
TextFields == {"image_url", "full_name", "gang_affiliation", "suspected_informant",
               "last_known_location", "blackmail_material", "personality_notes",
               "behavioral_patterns", "created_by", "updated_by", "last_updated",
               "high_priority_at"}

\* list fields: <<>> stands for an absent (or empty) list
ListFields == {"known_associates", "organization_ties", "recent_contacts",
               "known_vehicles", "radio_frequencies", "tracked_devices",
               "recent_movements", "cctv_snapshots", "intercepted_audio",
               "linked_reports", "internal_flags"}

PersonFields == TextFields \cup ListFields

\* the contents a field of a stored record takes in the model
FieldValues(f) ==
  CASE f = "full_name"           -> {"Kenji"}
    [] f = "suspected_informant" -> {"yes", "no", "unknown"}
    [] f = "last_updated"        -> {"2024-05-01", "2024-05-01T10:00:00Z", "yesterday"}
    [] f = "high_priority_at"    -> {"2024-05-02T08:00:00Z"}
    [] f = "blackmail_material"  -> {"ledger", "photos"}
    [] f = "personality_notes"   -> {"volatile", "calm"}
    [] f = "behavioral_patterns" -> {"night", "day"}
    [] f = "cctv_snapshots"      -> {<<"cam1.png">>, <<"cam2.png", "cam3.png">>}
    [] f = "intercepted_audio"   -> {<<"tap1.mp3">>, <<"tap2.mp3">>}
    [] f = "linked_reports"      -> {<<"Night Market">>, <<"Harbor">>}
    [] f = "internal_flags"      -> {<<"High Priority">>, <<"Person of Interest">>,
                                     <<"HIGH PRIORITY", "Person of Interest">>}
    [] f = "known_vehicles"      -> {<<[make |-> "Karin", model |-> "Sultan",
                                        color |-> "black", plate |-> "ARC-1"]>>}
    [] f \in ListFields          -> {<<"x">>}
    [] OTHER                     -> {"x"}

\* a record with only the required name
BlankPerson ==
  [f \in PersonFields \cup {"access_level"} |->
     IF f = "full_name" THEN "Sakura"
     ELSE IF f = "access_level" THEN Undefined
     ELSE IF f \in ListFields THEN <<>> ELSE ""]

\* bound on the number of fields of a record that differ from BlankPerson
MaxFilled == 2

RECURSIVE PersonsWith(_)
PersonsWith(k) ==
  IF k = 0 THEN {BlankPerson}
  ELSE LET prev == PersonsWith(k - 1)
       IN  prev \cup UNION {{[p EXCEPT ![f] = v] : v \in FieldValues(f), p \in prev} :
                            f \in PersonFields}

Persons == PersonsWith(MaxFilled)

\* values of Person.access_level: the seven keys of ACCESS_RANK, a missing
\* property, and a member of the older enumeration of types.ts
AccessLevels == DOMAIN ACCESS_RANK \cup {Undefined, "public"}

\* values of the viewerClearance prop
ViewerClearances == DOMAIN CLEARANCE_RANK \cup {Undefined}

NoPerson == [f \in PersonFields \cup {"access_level"} |->
               IF f \in ListFields THEN <<>> ELSE ""]

\* lastUpdatedPretty for a browser with the en-US locale in the UTC zone
lastUpdatedPretty(raw) ==
  CASE raw = "" -> ""
    [] raw = "2024-05-01" -> "05/01/2024"
    [] raw = "2024-05-01T10:00:00Z" -> "05/01/2024, 10:00:00 UTC"
    [] OTHER -> raw

\* new Date(person.high_priority_at).toLocaleString(), same browser
toLocaleString(raw) ==
  CASE raw = "2024-05-02T08:00:00Z" -> "5/2/2024, 8:00:00 AM"
    [] OTHER -> "Invalid Date"

\* `{text && <el>}`: an element when the text is non-empty
WhenText(label, text) == IF text # "" THEN Shown(label, text) ELSE Null

HeaderSection(p, allow) ==
  [image               |-> WhenText("img", p.image_url),
   full_name           |-> Shown("h2", p.full_name),
   high_priority_badge |-> IF isHighPriority(p) THEN Shown("flag", "High Priority") ELSE Null,
   gang_affiliation    |-> WhenText("flag", p.gang_affiliation),
   suspected_informant |-> WhenText("Informant", p.suspected_informant)]

NetworkSection(p, allow) ==
  [known_associates  |-> ListRow("Associates", p.known_associates),
   organization_ties |-> ListRow("Org Ties", p.organization_ties),
   recent_contacts   |-> ListRow("Recent Contacts", p.recent_contacts)]

TrackingSection_gated(p, allow) ==
  [last_known_location |-> IF allow THEN WhenText("Location", p.last_known_location)
                           ELSE Null,
   known_vehicles      |-> ListRow("Vehicles", p.known_vehicles),
   radio_frequencies   |-> ListRow("Frequencies", p.radio_frequencies),
   tracked_devices     |-> ListRow("Devices", p.tracked_devices),
   recent_movements    |-> ListRow("Movements", p.recent_movements)]

TrackingSection(p, allow) ==
  [last_known_location |-> WhenText("Location", p.last_known_location),
   known_vehicles      |-> ListRow("Vehicles", p.known_vehicles),
   radio_frequencies   |-> ListRow("Frequencies", p.radio_frequencies),
   tracked_devices     |-> ListRow("Devices", p.tracked_devices),
   recent_movements    |-> ListRow("Movements", p.recent_movements)]

\* `{list?.length ? (allow ? <content> : <Redacted>) : null}`
Gated(label, value, empty, allow) ==
  IF value = empty THEN Null
  ELSE IF allow THEN Shown(label, value)
  ELSE Redacted(label)

IntelSection(p, allow) ==
  [cctv_snapshots     |-> Gated("Snapshots", p.cctv_snapshots, <<>>, allow),
   intercepted_audio  |-> Gated("Audio", p.intercepted_audio, <<>>, allow),
   blackmail_material |-> Gated("Blackmail", p.blackmail_material, "", allow),
   linked_reports     |-> ListRow("Reports", p.linked_reports)]

MetaSection(p, allow) ==
  [created_by          |-> WhenText("Created by", p.created_by),
   updated_by          |-> WhenText("Last updated by", p.updated_by),
   last_updated        |-> WhenText("Last updated", lastUpdatedPretty(p.last_updated)),
   high_priority_since |-> IF isHighPriority(p) /\ p.high_priority_at # ""
                             THEN Shown("High Priority Since",
                                        toLocaleString(p.high_priority_at))
                             ELSE Null,
   internal_flags      |-> Gated("Flags", p.internal_flags, <<>>, allow)]

ActionsSection(p, allow) ==
  [priority_button |-> Shown("title", IF isHighPriority(p) THEN "Unmark High Priority"
                                      ELSE "Mark High Priority")]

PreviewOverlay(url) == [image_preview |-> WhenText("Preview", url)]

\* the element tree PersonDetails returns, as a function from slot to element
PersonDetails(p, viewer, preview) ==
  LET allow == canView(p, DefaultViewer(viewer))
  IN  HeaderSection(p, allow) @@ NetworkSection(p, allow)
        @@ TrackingSection(p, allow) @@ IntelSection(p, allow)
        @@ MetaSection(p, allow) @@ ActionsSection(p, allow)
        @@ PreviewOverlay(preview)

NoView == [closed |-> TRUE]

DetailsOpen == person # NoPerson

DetailsInit ==
  /\ person = NoPerson
  /\ viewerClearance = Undefined
  /\ allowed = FALSE
  /\ view = NoView
  /\ previewUrl = ""

\* a page mounts <PersonDetails person=... viewerClearance=...>
ViewPerson(p, a, v) ==
  /\ UNCHANGED <<guardVars, appVars, agentsVars, restVars>>
  /\ person' = [p EXCEPT !["access_level"] = a]
  /\ viewerClearance' = v
  /\ previewUrl' = ""
  /\ allowed' = canView(person', DefaultViewer(v))
  /\ view' = PersonDetails(person', v, "")

\* the page shows the details of one of the stored records
OpenDetails ==
  /\ ~DetailsOpen
  /\ \E p \in Persons, a \in AccessLevels, v \in ViewerClearances : ViewPerson(p, a, v)

\* the longest cctv_snapshots list of FieldValues
MaxSnapshots == 2

\* onMouseEnter / onFocus of a CCTV thumbnail (rendered only when allowed)
HoverSnapshot(i) ==
  /\ UNCHANGED <<guardVars, appVars, agentsVars, restVars>>
  /\ DetailsOpen
  /\ allowed
  /\ i \in DOMAIN person.cctv_snapshots
  /\ previewUrl' = person.cctv_snapshots[i]
  /\ view' = PersonDetails(person, viewerClearance, previewUrl')
  /\ UNCHANGED <<person, viewerClearance, allowed>>

\* onMouseLeave / onBlur
LeaveSnapshot ==
  /\ UNCHANGED <<guardVars, appVars, agentsVars, restVars>>
  /\ DetailsOpen
  /\ previewUrl # ""
  /\ previewUrl' = ""
  /\ view' = PersonDetails(person, viewerClearance, "")
  /\ UNCHANGED <<person, viewerClearance, allowed>>

\* onClose: the page unmounts the component
CloseDetails ==
  /\ UNCHANGED <<guardVars, appVars, agentsVars, restVars>>
  /\ DetailsOpen
  /\ person' = NoPerson
  /\ viewerClearance' = Undefined
  /\ allowed' = FALSE
  /\ view' = NoView
  /\ previewUrl' = ""

(***************************************************************************)
(* AddAgentModal / EditAgentModal: the roster forms                        *)
(* Text inputs are sequences of one-character strings.  One set of form    *)
(* variables serves both modals: each resets all of its state when it      *)
(* opens, and the page shows one modal at a time.                          *)
(***************************************************************************)

RECURSIVE trimStart(_)
trimStart(s) == IF s # <<>> /\ Head(s) = " " THEN trimStart(Tail(s)) ELSE s

RECURSIVE trimEnd(_)
trimEnd(s) ==
  IF s # <<>> /\ s[Len(s)] = " " THEN trimEnd(SubSeq(s, 1, Len(s) - 1)) ELSE s

\* String.prototype.trim
trim(s) == trimEnd(trimStart(s))

\* a text of n copies of the character ch
Repeat(ch, n) == [i \in 1..n |-> ch]

\* the options of the Rank <select> the model picks from
RANKS == {"Observer", "Handler"}

\* the options of the Clearance <select> (same list in both modals)
CLEARANCES ==
  {"Minimal", "Confidential", "Restricted", "Classified", "Operational",
   "Top Secret", "Redline"}

MIN_PASSWORD_LENGTH == 4

MaxPassword == 4

\* typed values: a padded name; passwords of leading blanks and letters
NameInputs == {<<"a", " ">>}
PasswordInputs ==
  {t \in {Repeat(" ", k) \o Repeat("p", m) :
             k \in 0..MaxPassword, m \in 0..MaxPassword} :
     Len(t) <= MaxPassword}
ClearanceInputs == {"Restricted", "Top Secret"}

NoAgent == [id |-> 0]
NoReq == [method |-> "none"]

\* roster rows the Edit button can hand to EditAgentModal
EditTargets ==
  {[id |-> 1, name |-> <<"a">>, username |-> <<"a">>, rank |-> "Observer",
    clearance |-> c] : c \in {"Minimal", "TopSecret"}}

passwordTooShort == Len(password) > 0 /\ Len(password) < MIN_PASSWORD_LENGTH

canSubmitAdd ==
  /\ Len(trim(name)) > 0
  /\ Len(trim(username)) > 0
  /\ Len(trim(password)) >= MIN_PASSWORD_LENGTH

canSubmitEdit ==
  /\ modal = "edit"
  /\ agent # NoAgent
  /\ Len(trim(name)) > 0
  /\ Len(trim(username)) > 0
  /\ ~passwordTooShort

FormInit ==
  /\ modal = "none"
  /\ agent = NoAgent
  /\ name = <<>>
  /\ username = <<>>
  /\ password = <<>>
  /\ rank = "Observer"
  /\ clearance = "Minimal"
  /\ saving = FALSE
  /\ formError = Null
  /\ agentReq = NoReq

\* AgentsPage "Add Agent" button, then the modal's reset effect
OpenAdd ==
  /\ modal = "none"
  /\ modal' = "add"
  /\ name' = <<>>
  /\ username' = <<>>
  /\ password' = <<>>
  /\ rank' = "Observer"
  /\ clearance' = "Minimal"
  /\ saving' = FALSE
  /\ formError' = Null
  /\ UNCHANGED <<agent, agentReq>>
  /\ UNCHANGED <<oldVars, intelVars, entryVars, searchVars, loginVars>>

\* AgentsPage "Edit" button on a row, then the modal's prefill effect
OpenEdit(a) ==
  /\ modal = "none"
  /\ modal' = "edit"
  /\ agent' = a
  /\ name' = a.name
  /\ username' = a.username
  /\ password' = <<>>
  /\ rank' = a.rank
  /\ clearance' = a.clearance
  /\ saving' = FALSE
  /\ formError' = Null
  /\ UNCHANGED agentReq
  /\ UNCHANGED <<oldVars, intelVars, entryVars, searchVars, loginVars>>

setName(v) ==
  /\ modal # "none"
  /\ name' = v
  /\ UNCHANGED <<modal, agent, username, password, rank, clearance, saving,
                 formError, agentReq>>
  /\ UNCHANGED <<oldVars, intelVars, entryVars, searchVars, loginVars>>

setUsername(v) ==
  /\ modal # "none"
  /\ username' = v
  /\ UNCHANGED <<modal, agent, name, password, rank, clearance, saving,
                 formError, agentReq>>
  /\ UNCHANGED <<oldVars, intelVars, entryVars, searchVars, loginVars>>

setPassword(v) ==
  /\ modal # "none"
  /\ password' = v
  /\ UNCHANGED <<modal, agent, name, username, rank, clearance, saving,
                 formError, agentReq>>
  /\ UNCHANGED <<oldVars, intelVars, entryVars, searchVars, loginVars>>

setRank(r) ==
  /\ modal # "none"
  /\ rank' = r
  /\ UNCHANGED <<modal, agent, name, username, password, clearance, saving,
                 formError, agentReq>>
  /\ UNCHANGED <<oldVars, intelVars, entryVars, searchVars, loginVars>>

setClearance(c) ==
  /\ modal # "none"
  /\ clearance' = c
  /\ UNCHANGED <<modal, agent, name, username, password, rank, saving,
                 formError, agentReq>>
  /\ UNCHANGED <<oldVars, intelVars, entryVars, searchVars, loginVars>>

\* AddAgentModal.handleSubmit up to the await
handleSubmitAdd ==
  /\ modal = "add"
  /\ canSubmitAdd
  /\ ~saving
  /\ saving' = TRUE
  /\ formError' = Null
  /\ agentReq' = [method |-> "POST", id |-> 0,
                  body |-> [name |-> trim(name), username |-> trim(username),
                            password |-> trim(password), rank |-> rank,
                            clearance |-> clearance, createdBy |-> "You"]]
  /\ UNCHANGED <<modal, agent, name, username, password, rank, clearance>>
  /\ UNCHANGED <<oldVars, intelVars, entryVars, searchVars, loginVars>>

\* the payload EditAgentModal.handleSubmit builds
EditPayload ==
  LET payload == [name |-> trim(name), username |-> trim(username),
                  rank |-> rank, clearance |-> clearance]
  IN  IF trim(password) # <<>>
        THEN payload @@ [password |-> trim(password)]
        ELSE payload

\* EditAgentModal.handleSubmit up to the await
handleSubmitEdit ==
  /\ canSubmitEdit
  /\ ~saving
  /\ saving' = TRUE
  /\ formError' = Null
  /\ agentReq' = [method |-> "PUT", id |-> agent.id, body |-> EditPayload]
  /\ UNCHANGED <<modal, agent, name, username, password, rank, clearance>>
  /\ UNCHANGED <<oldVars, intelVars, entryVars, searchVars, loginVars>>

\* the POST settles: onCreated + onClose, or the catch; then finally
AddSettled(ok) ==
  /\ agentReq.method = "POST"
  /\ agentReq' = NoReq
  /\ modal' = IF ok THEN "none" ELSE modal
  /\ formError' = IF ok THEN formError ELSE <<"Failed to create agent.">>
  /\ saving' = FALSE
  /\ UNCHANGED <<agent, name, username, password, rank, clearance>>
  /\ UNCHANGED <<oldVars, intelVars, entryVars, searchVars, loginVars>>

\* the PUT settles: onUpdated + onClose (setEditing(null)), or the catch
EditSettled(ok) ==
  /\ agentReq.method = "PUT"
  /\ agentReq' = NoReq
  /\ modal' = IF ok THEN "none" ELSE modal
  /\ agent' = IF ok THEN NoAgent ELSE agent
  /\ formError' = IF ok THEN formError ELSE <<"Failed to update agent.">>
  /\ saving' = FALSE
  /\ UNCHANGED <<name, username, password, rank, clearance>>
  /\ UNCHANGED <<oldVars, intelVars, entryVars, searchVars, loginVars>>

\* the Cancel button (disabled while saving): onClose
CancelForm ==
  /\ modal # "none"
  /\ ~saving
  /\ modal' = "none"
  /\ agent' = NoAgent
  /\ UNCHANGED <<name, username, password, rank, clearance, saving,
                 formError, agentReq>>
  /\ UNCHANGED <<oldVars, intelVars, entryVars, searchVars, loginVars>>


(***************************************************************************)
(* IntelFilesPage and IntelDetailsModal: one intel report, its flags       *)
(* The backend is a record store: a PUT stores the body it is sent, and    *)
(* the priority endpoint moves the tag and the stamp together.             *)
(***************************************************************************)

NoDoc == [id |-> 0]

MaxOps == 2

\* IntelDetailsModal.eqFlag / isHP
eqFlag(a, b) == toLowerCase(a) = toLowerCase(b)
isHP(f) == eqFlag(f, "High Priority")

propFlags(rec) == rec.internal_flags
setFlagsOn(rec, nextFlags) == [rec EXCEPT !.internal_flags = nextFlags]

\* Array.from(new Set(list)): the first occurrence of every string, in order
RECURSIVE uniq(_)
uniq(list) ==
  IF list = <<>> THEN <<>>
  ELSE LET init == uniq(SubSeq(list, 1, Len(list) - 1))
           last == list[Len(list)]
       IN  IF \E i \in DOMAIN init : init[i] = last THEN init
           ELSE Append(init, last)

\* flags.filter((f) => !eqFlag(f, flag))
RECURSIVE withoutFlag(_, _)
withoutFlag(list, flag) ==
  IF list = <<>> THEN <<>>
  ELSE IF eqFlag(Head(list), flag) THEN withoutFlag(Tail(list), flag)
       ELSE <<Head(list)>> \o withoutFlag(Tail(list), flag)

\* what the user types into AddFlagRow: blanks around one flag text
FlagTexts == {<<" ", "Watch", " ">>, <<"High Priority">>, <<" ">>}

\* a high_priority_at value: "" when absent, else the backend's time stamp,
\* of which only the presence is modelled
Stamp == "2025-01-01T00:00:00Z"

\* the backend's POST /api/intel/{id}/priority
ServerSetPriority(doc, want) ==
  IF want
    THEN IF isHighPriority(doc) /\ doc.high_priority_at # "" THEN doc
         ELSE [doc EXCEPT
                 !.internal_flags =
                    IF isHighPriority(doc) THEN @ ELSE Append(@, "High Priority"),
                 !.high_priority_at = Stamp]
    ELSE [doc EXCEPT !.internal_flags = withoutFlag(@, "High Priority"),
                     !.high_priority_at = ""]

\* the backend's PUT /api/intel/{id}
ServerPut(doc, body) == body

\* the reports the backend can hold when the page loads
StoredDocs ==
  {[id |-> 1, title |-> <<"A">>, internal_flags |-> fl, high_priority_at |-> at] :
     <<fl, at>> \in {<<<<"Watch">>, "">>, <<<<"High Priority">>, Stamp>>}}

TitleInputs == {<<"B", " ">>}

\* room for one more call in flight
CanCall == BagCardinality(ops) < MaxOps
Calling(op) == ops (+) SetToBag({op})
Ended(op) == ops (-) SetToBag({op})
ModalOpen == selectedIntel # NoDoc

IntelPageFresh ==
  /\ intelData = NoDoc
  /\ selectedIntel = NoDoc
  /\ record = NoDoc
  /\ modalLoading = FALSE
  /\ flagBusy = FALSE
  /\ hpBusy = FALSE
  /\ ops = EmptyBag
  /\ editingIntel = NoDoc
  /\ eTitle = <<>>
  /\ intelEditSaving = FALSE
  /\ saveReq = NoDoc

IntelIdle ==
  /\ intelDb = NoDoc
  /\ IntelPageFresh

IntelInit ==
  /\ intelDb \in StoredDocs
  /\ IntelPageFresh

\* loadIntel: GET /api/intel answered
IntelLoaded ==
  /\ intelData = NoDoc
  /\ intelData' = intelDb
  /\ UNCHANGED <<intelDb, selectedIntel, record, modalLoading, flagBusy,
                 hpBusy, ops, editingIntel, eTitle, intelEditSaving, saveReq>>
  /\ UNCHANGED <<oldVars, formVars, entryVars, searchVars, loginVars>>

\* row click: setSelectedIntel(doc); the modal mounts and calls refresh()
SelectIntel ==
  /\ intelData # NoDoc
  /\ ~ModalOpen
  /\ editingIntel = NoDoc
  /\ CanCall
  /\ selectedIntel' = intelData
  /\ record' = intelData
  /\ modalLoading' = TRUE
  /\ flagBusy' = FALSE
  /\ hpBusy' = FALSE
  /\ ops' = Calling(
               [kind |-> "refresh", stage |-> "refresh", busy |-> "none",
                by |-> "mount", flag |-> "", live |-> TRUE])
  /\ UNCHANGED <<intelDb, intelData, editingIntel, eTitle,
                 intelEditSaving, saveReq>>
  /\ UNCHANGED <<oldVars, formVars, entryVars, searchVars, loginVars>>

\* toggleHighPriority up to its first await; `by` is the handler that
\* called it and `flag` that handler's argument
StartToggle(by, flag) ==
  /\ hpBusy' = TRUE
  /\ ops' = Calling(
               [kind |-> "priority", stage |-> "send",
                want |-> ~isHighPriority(record), busy |-> "hp",
                by |-> by, flag |-> flag, live |-> TRUE])
  /\ UNCHANGED <<intelDb, intelData, selectedIntel, record, modalLoading,
                 flagBusy, editingIntel, eTitle, intelEditSaving, saveReq>>
  /\ UNCHANGED <<oldVars, formVars, entryVars, searchVars, loginVars>>

\* a PUT of the record with another flag list, up to its await
StartPutFlags(by, flag, nextFlags) ==
  /\ flagBusy' = TRUE
  /\ ops' = Calling(
               [kind |-> "put", stage |-> "send",
                body |-> setFlagsOn(record, nextFlags), busy |-> "flag",
                by |-> by, flag |-> flag, live |-> TRUE])
  /\ UNCHANGED <<intelDb, intelData, selectedIntel, record, modalLoading,
                 hpBusy, editingIntel, eTitle, intelEditSaving, saveReq>>
  /\ UNCHANGED <<oldVars, formVars, entryVars, searchVars, loginVars>>

\* the High Priority button (disabled while hpBusy)
toggleHighPriority ==
  /\ ModalOpen
  /\ ~hpBusy
  /\ CanCall
  /\ StartToggle("toggleHighPriority", "")

\* AddFlagRow's Add button (disabled while flagBusy or the text is blank),
\* then addFlag
addFlag(text) ==
  /\ ModalOpen
  /\ ~flagBusy
  /\ trim(text) # <<>>
  /\ CanCall
  /\ LET flag == trim(text)[1]
     IN  IF isHP(flag) THEN StartToggle("addFlag", flag)
         ELSE StartPutFlags("addFlag", flag,
                            uniq(Append(propFlags(record), flag)))

\* the remove button of the i-th flag chip (disabled while flagBusy)
removeFlag(i) ==
  /\ ModalOpen
  /\ ~flagBusy
  /\ i \in DOMAIN propFlags(record)
  /\ CanCall
  /\ LET flag == propFlags(record)[i]
     IN  IF isHP(flag)
           THEN /\ flagBusy' = TRUE
                /\ ops' = Calling(
                             [kind |-> "priority", stage |-> "send",
                              want |-> FALSE, busy |-> "flag",
                              by |-> "removeFlag", flag |-> flag,
                              live |-> TRUE])
                /\ UNCHANGED <<intelDb, intelData, selectedIntel, record,
                               modalLoading, hpBusy, editingIntel, eTitle,
                               intelEditSaving, saveReq>>
                /\ UNCHANGED <<oldVars, formVars, entryVars, searchVars, loginVars>>
           ELSE StartPutFlags("removeFlag", flag,
                              withoutFlag(propFlags(record), flag))

\* any of the flag chips shown
removeShownFlag ==
  /\ ModalOpen
  /\ \E i \in DOMAIN propFlags(record) : removeFlag(i)

\* The calls of an unmounted modal go on and their state updates are
\* dropped.  A refresh() of an unmounted modal changes nothing any more, so
\* it is not kept in the bag.
Orphaned ==
  LET dead(o) == [o EXCEPT !.live = FALSE]
      alive(o) == [o EXCEPT !.live = TRUE]
      sending == {o \in BagToSet(ops) : o.stage = "send"}
  IN  [d \in {dead(o) : o \in sending} |->
         CopiesIn(d, ops) + CopiesIn(alive(d), ops)]

\* after a successful write the call goes on to refresh()
Refreshing(op) ==
  IF op.live THEN Ended(op) (+) SetToBag({[op EXCEPT !.stage = "refresh"]})
  ELSE Ended(op)

\* the finally block of a modal call: its busy flag goes down
Release(op, busyNow, which) ==
  IF op.live /\ op.busy = which THEN FALSE ELSE busyNow

\* the POST .../priority of slot s is answered; on success refresh() starts
PriorityAnswered(op, ok) ==
  /\ op.kind = "priority"
  /\ op.stage = "send"
  /\ IF ok
       THEN /\ intelDb' = ServerSetPriority(intelDb, op.want)
            /\ ops' = Refreshing(op)
            /\ modalLoading' = IF op.live THEN TRUE ELSE modalLoading
            /\ UNCHANGED <<flagBusy, hpBusy>>
       ELSE /\ ops' = Ended(op)
            /\ flagBusy' = Release(op, flagBusy, "flag")
            /\ hpBusy' = Release(op, hpBusy, "hp")
            /\ UNCHANGED <<intelDb, modalLoading>>
  /\ UNCHANGED <<intelData, selectedIntel, record, editingIntel, eTitle,
                 intelEditSaving, saveReq>>
  /\ UNCHANGED <<oldVars, formVars, entryVars, searchVars, loginVars>>

\* the PUT of slot s is answered; on success refresh() starts
PutFlagsAnswered(op, ok) ==
  /\ op.kind = "put"
  /\ op.stage = "send"
  /\ IF ok
       THEN /\ intelDb' = ServerPut(intelDb, op.body)
            /\ ops' = Refreshing(op)
            /\ modalLoading' = IF op.live THEN TRUE ELSE modalLoading
            /\ UNCHANGED <<flagBusy, hpBusy>>
       ELSE /\ ops' = Ended(op)
            /\ flagBusy' = Release(op, flagBusy, "flag")
            /\ hpBusy' = Release(op, hpBusy, "hp")
            /\ UNCHANGED <<intelDb, modalLoading>>
  /\ UNCHANGED <<intelData, selectedIntel, record, editingIntel, eTitle,
                 intelEditSaving, saveReq>>
  /\ UNCHANGED <<oldVars, formVars, entryVars, searchVars, loginVars>>

\* refresh(): the GET /api/intel/{id} of slot s is answered
RefreshAnswered(op, ok) ==
  /\ op.stage = "refresh"
  /\ record' = IF op.live /\ ok THEN intelDb ELSE record
  /\ modalLoading' = IF op.live THEN FALSE ELSE modalLoading
  /\ flagBusy' = Release(op, flagBusy, "flag")
  /\ hpBusy' = Release(op, hpBusy, "hp")
  /\ ops' = Ended(op)
  /\ UNCHANGED <<intelDb, intelData, selectedIntel, editingIntel, eTitle,
                 intelEditSaving, saveReq>>
  /\ UNCHANGED <<oldVars, formVars, entryVars, searchVars, loginVars>>

\* the backend answers one of the calls in flight, or the call fails
AnswerPriority ==
  \E op \in BagToSet(ops), ok \in BOOLEAN : PriorityAnswered(op, ok)

AnswerPutFlags ==
  \E op \in BagToSet(ops), ok \in BOOLEAN : PutFlagsAnswered(op, ok)

AnswerRefresh ==
  \E op \in BagToSet(ops), ok \in BOOLEAN : RefreshAnswered(op, ok)

\* onClose (Close button, Escape, overlay click): the modal unmounts
CloseIntel ==
  /\ ModalOpen
  /\ selectedIntel' = NoDoc
  /\ record' = NoDoc
  /\ modalLoading' = FALSE
  /\ flagBusy' = FALSE
  /\ hpBusy' = FALSE
  /\ ops' = Orphaned
  /\ UNCHANGED <<intelDb, intelData, editingIntel, eTitle,
                 intelEditSaving, saveReq>>
  /\ UNCHANGED <<oldVars, formVars, entryVars, searchVars, loginVars>>

\* the modal's Edit button
openEditFromDetails ==
  /\ ModalOpen
  /\ eTitle' = selectedIntel.title
  /\ editingIntel' = selectedIntel
  /\ selectedIntel' = NoDoc
  /\ record' = NoDoc
  /\ modalLoading' = FALSE
  /\ flagBusy' = FALSE
  /\ hpBusy' = FALSE
  /\ ops' = Orphaned
  /\ UNCHANGED <<intelDb, intelData, intelEditSaving, saveReq>>
  /\ UNCHANGED <<oldVars, formVars, entryVars, searchVars, loginVars>>

setETitle(v) ==
  /\ editingIntel # NoDoc
  /\ eTitle' = v
  /\ UNCHANGED <<intelDb, intelData, selectedIntel, record, modalLoading,
                 flagBusy, hpBusy, ops, editingIntel, intelEditSaving, saveReq>>
  /\ UNCHANGED <<oldVars, formVars, entryVars, searchVars, loginVars>>

\* saveEdit up to the await (Save is disabled while editSaving)
saveEdit ==
  /\ editingIntel # NoDoc
  /\ ~intelEditSaving
  /\ intelEditSaving' = TRUE
  /\ saveReq' = [editingIntel EXCEPT !.title = trim(eTitle)]
  /\ UNCHANGED <<intelDb, intelData, selectedIntel, record, modalLoading,
                 flagBusy, hpBusy, ops, editingIntel, eTitle>>
  /\ UNCHANGED <<oldVars, formVars, entryVars, searchVars, loginVars>>

\* saveEdit after the await
SaveEditAnswered(ok) ==
  /\ saveReq # NoDoc
  /\ saveReq' = NoDoc
  /\ intelEditSaving' = FALSE
  /\ intelDb' = IF ok THEN ServerPut(intelDb, saveReq) ELSE intelDb
  /\ intelData' = IF ok THEN intelDb' ELSE intelData
  /\ editingIntel' = IF ok THEN NoDoc ELSE editingIntel
  /\ UNCHANGED <<selectedIntel, record, modalLoading, flagBusy, hpBusy,
                 ops, eTitle>>
  /\ UNCHANGED <<oldVars, formVars, entryVars, searchVars, loginVars>>

\* EditReportModal's Cancel button (disabled while saving)
CancelEdit ==
  /\ editingIntel # NoDoc
  /\ ~intelEditSaving
  /\ editingIntel' = NoDoc
  /\ UNCHANGED <<intelDb, intelData, selectedIntel, record, modalLoading,
                 flagBusy, hpBusy, ops, eTitle, intelEditSaving, saveReq>>
  /\ UNCHANGED <<oldVars, formVars, entryVars, searchVars, loginVars>>


(***************************************************************************)
(* SearchPage / PersonsOfInterestPage: viewing a person, the High Priority *)
(* toggle of PersonDetails, and NewEntryForm with saveEntry.               *)
(* The backend stores the body of an update or a create as it is sent.     *)
(* A text with separators is a sequence of chunks: items and separators.   *)
(***************************************************************************)

EntryFields ==
  PersonFields \cup {"access_level", "id", "created_by_id", "updated_by_id"}

\* the value of a property that is not there
Absent(f) ==
  IF f = "id" THEN 0
  ELSE IF f = "access_level" THEN Undefined
  ELSE IF f \in ListFields THEN <<>> ELSE ""

NoEdit == [none |-> TRUE]

\* setEditingPerson({})
NewPerson == [f \in EntryFields |-> Absent(f)]

EntryPerson(id, flags, at, level) ==
  [f \in EntryFields |->
     CASE f = "id" -> id
       [] f = "full_name" -> "Sakura"
       [] f = "internal_flags" -> flags
       [] f = "high_priority_at" -> at
       [] f = "access_level" -> level
       [] f = "blackmail_material" -> "ledger"
       [] f = "created_by" -> "Archivist"
       [] OTHER -> Absent(f)]

\* the people the backend can hold when the page loads
StoredPeople ==
  {EntryPerson(1, fl[1], fl[2], a) :
     fl \in {<<<<"Person of Interest">>, "">>,
             <<<<"Person of Interest", "High Priority">>, Stamp>>},
     a \in {"restricted"}}

MaxPeople == 1
MaxCalls == 1

\* String.prototype.trim on the texts of the model
trimText(t) ==
  CASE t = " Sakura " -> "Sakura"
    [] t = " " -> ""
    [] OTHER -> t

Separators == {",", ";", "\n"}

RECURSIVE trimEach(_)
trimEach(items) ==
  IF items = <<>> THEN <<>>
  ELSE <<trimText(Head(items))>> \o trimEach(Tail(items))

RECURSIVE nonEmpty(_)
nonEmpty(items) ==
  IF items = <<>> THEN <<>>
  ELSE IF Head(items) = "" THEN nonEmpty(Tail(items))
       ELSE <<Head(items)>> \o nonEmpty(Tail(items))

RECURSIVE splitChunks(_)
splitChunks(text) ==
  IF text = <<>> THEN <<>>
  ELSE IF Head(text) \in Separators THEN splitChunks(Tail(text))
       ELSE <<Head(text)>> \o splitChunks(Tail(text))

\* value.split(/[\n,;]+/g).map((s) => s.trim()).filter(Boolean)
splitToArray(text) == nonEmpty(trimEach(splitChunks(text)))

\* arr.join("\n")
RECURSIVE joinMultiline(_)
joinMultiline(arr) ==
  IF Len(arr) <= 1 THEN arr
  ELSE <<Head(arr), "\n">> \o joinMultiline(Tail(arr))

nowIso == "2024-05-01T10:00:00Z"

\* getCurrentAgent(): the parsed "agent" item, or null
getCurrentAgent == IF storedAgent.kind = "json" THEN storedAgent.agent ELSE NoUser

\* agentDisplay: the first of name / display_name / username that is set
agentDisplay(a) == IF a = NoUser THEN "" ELSE a.name

\* NewEntryForm: useState({suspected_informant: "unknown", ...initialData})
\* followed by the mount effect that fills created_by and last_updated
InitialFormData(initialData) ==
  [initialData EXCEPT
     !["suspected_informant"] = IF @ = "" THEN "unknown" ELSE @,
     !["created_by"] = IF trimText(@) # "" THEN @
                       ELSE agentDisplay(getCurrentAgent),
     !["last_updated"] = IF @ # "" THEN @ ELSE nowIso]

\* what the user can type into the Internal Flags textarea
FlagsTextInputs == {<<"High Priority", ",", " ">>}
FullNameInputs == {" Sakura "}
AccessLevelOptions ==
  {"", "minimal", "confidential", "restricted", "classified", "operational",
   "topsecret", "redline"}
AccessLevelInputs == {"", "topsecret"}

\* NewEntryForm.handleSubmit: the record handed to onSubmit
Normalized(fd, initialData) ==
  [f \in EntryFields |->
     CASE f = "full_name" -> trimText(fd[f])
       [] f = "suspected_informant" -> IF fd[f] = "" THEN "unknown" ELSE fd[f]
       [] f = "cctv_snapshots" -> splitToArray(joinMultiline(initialData[f]))
       [] f = "intercepted_audio" -> splitToArray(joinMultiline(initialData[f]))
       [] f = "last_updated" -> nowIso
       [] f = "access_level" -> IF fd[f] = Undefined THEN "minimal" ELSE fd[f]
       [] f \in {"id", "high_priority_at", "created_by_id", "updated_by_id"} ->
            Absent(f)
       [] OTHER -> fd[f]]

\* SearchPage.saveEntry: the payload of the PUT or the POST
SavePayload(newEntry) ==
  LET a == getCurrentAgent
  IN  IF editingPerson.id # 0
        THEN [newEntry EXCEPT !["id"] = editingPerson.id,
                              !["updated_by_id"] = a.id,
                              !["updated_by"] = agentDisplay(a),
                              !["last_updated"] = nowIso]
        ELSE [newEntry EXCEPT !["created_by_id"] = a.id,
                              !["created_by"] = agentDisplay(a),
                              !["last_updated"] = nowIso]

\* the backend's PUT /api/update/{id} and POST /api/create
PeoplePut(db, id, body) == [db EXCEPT ![id] = body]
PeopleCreate(db, body) == Append(db, [body EXCEPT !["id"] = Len(db) + 1])

\* setResults((prev) => prev.map((p) => (p.id === entry.id ? entry : p)))
ReplaceRow(rows, entry) ==
  [i \in DOMAIN rows |-> IF rows[i].id = entry.id THEN entry ELSE rows[i]]

EntryOthers ==
  <<guardVars, appVars, agentsVars, formVars, intelVars, searchVars, loginVars>>

CanSend == BagCardinality(calls) < MaxCalls

EntryIdle ==
  /\ peopleDb = <<>>
  /\ storedAgent = NoItem
  /\ results = <<>>
  /\ priorityBusy = FALSE
  /\ calls = EmptyBag
  /\ editingPerson = NoEdit
  /\ formData = NoEdit

\* the sessions of the model: Login.tsx writes the "agent" item and no token,
\* the Login that expects {user, token} writes the token and no "agent" item
EntrySessions ==
  {[who |-> AgentOf("Restricted"), at |-> "/poi", tokens |-> FALSE],
   [who |-> AgentOf("Redline"), at |-> "/search", tokens |-> FALSE],
   [who |-> AgentOf("Redline"), at |-> "/search", tokens |-> TRUE]}

\* an agent has logged in and opened /search or /poi
EntryInit ==
  /\ \E s \in EntrySessions :
       /\ user = s.who
       /\ path = s.at
       /\ storedAgent = IF s.tokens THEN NoItem ELSE StoredJson(s.who)
       /\ storedToken = IF s.tokens THEN TokenOf(s.who) ELSE NoToken
  /\ authToken = storedToken
  /\ loadingUser = FALSE
  /\ storedUser = StoredJson(user)
  /\ nav = Decision(path, user)
  /\ agentsReqs = {}
  /\ AgentsPageUnmounted
  /\ peopleDb \in {<<>>} \cup {<<p>> : p \in StoredPeople}
  /\ results = <<>>
  /\ priorityBusy = FALSE
  /\ calls = EmptyBag
  /\ editingPerson = NoEdit
  /\ formData = NoEdit

\* the mount load (loadAll / usePeople) answered: the list is the stored people
PeopleLoaded ==
  /\ results = <<>>
  /\ results' = peopleDb
  /\ UNCHANGED <<peopleDb, storedAgent, priorityBusy, calls, editingPerson,
                 formData>>
  /\ UNCHANGED <<EntryOthers, detailsVars>>

\* the POI page lists the people flagged "Person of Interest"
Listed(p) ==
  path = "/poi" => \E i \in DOMAIN p.internal_flags :
                      p.internal_flags[i] = "Person of Interest"

\* the requests of an unmounted PersonDetails go on
Detached ==
  LET dead(o) == [o EXCEPT !.live = FALSE]
      alive(o) == [o EXCEPT !.live = TRUE]
  IN  [d \in {dead(o) : o \in BagToSet(calls)} |->
         CopiesIn(d, calls) + CopiesIn(alive(d), calls)]

\* "View Details" / "View Profile": the page mounts
\* <PersonDetails person=... /> without a viewerClearance
ViewRow(i) ==
  /\ ~DetailsOpen
  /\ editingPerson = NoEdit
  /\ i \in DOMAIN results
  /\ Listed(results[i])
  /\ person' = results[i]
  /\ viewerClearance' = Undefined
  /\ previewUrl' = ""
  /\ allowed' = canView(person', DefaultViewer(Undefined))
  /\ view' = PersonDetails(person', Undefined, "")
  /\ priorityBusy' = FALSE
  /\ UNCHANGED <<peopleDb, storedAgent, results, calls, editingPerson, formData>>
  /\ UNCHANGED EntryOthers

\* PersonDetails unmounts
Unmounted ==
  /\ person' = NoPerson
  /\ viewerClearance' = Undefined
  /\ allowed' = FALSE
  /\ view' = NoView
  /\ previewUrl' = ""
  /\ priorityBusy' = FALSE

\* the Close button: onClose
CloseRow ==
  /\ DetailsOpen
  /\ path \in {"/search", "/poi"}
  /\ Unmounted
  /\ calls' = Detached
  /\ UNCHANGED <<peopleDb, storedAgent, results, editingPerson, formData>>
  /\ UNCHANGED EntryOthers

\* the Edit button: onEdit(person); on the POI page onEdit does nothing
EditRow ==
  /\ DetailsOpen
  /\ path = "/search"
  /\ editingPerson' = person
  /\ formData' = InitialFormData(person)
  /\ Unmounted
  /\ calls' = Detached
  /\ UNCHANGED <<peopleDb, storedAgent, results>>
  /\ UNCHANGED EntryOthers

\* "+ New Entry": setEditingPerson({})
NewEntry ==
  /\ path = "/search"
  /\ ~DetailsOpen
  /\ editingPerson = NoEdit
  /\ editingPerson' = NewPerson
  /\ formData' = InitialFormData(NewPerson)
  /\ UNCHANGED <<peopleDb, storedAgent, results, priorityBusy, calls>>
  /\ UNCHANGED <<EntryOthers, detailsVars>>

\* PersonDetails.toggleHighPriority up to the await
togglePersonPriority ==
  /\ DetailsOpen
  /\ path \in {"/search", "/poi"}
  /\ ~priorityBusy
  /\ CanSend
  /\ priorityBusy' = TRUE
  /\ calls' = calls (+) SetToBag({[kind |-> "priority", id |-> person.id,
                                   want |-> ~isHighPriority(person),
                                   live |-> TRUE]})
  /\ UNCHANGED <<peopleDb, storedAgent, results, editingPerson, formData>>
  /\ UNCHANGED <<EntryOthers, detailsVars>>

\* PersonDetails.toggleHighPriority after the await: onEdit(obj.person)
PersonPriorityAnswered(c, ok) ==
  /\ c.kind = "priority"
  /\ calls' = calls (-) SetToBag({c})
  /\ peopleDb' = IF ok THEN [peopleDb EXCEPT ![c.id] = ServerSetPriority(@, c.want)]
                 ELSE peopleDb
  /\ IF ok /\ path = "/search"
       THEN /\ editingPerson' = peopleDb'[c.id]
            /\ formData' = IF editingPerson = NoEdit
                             THEN InitialFormData(peopleDb'[c.id])
                             ELSE formData
            /\ Unmounted
       ELSE /\ priorityBusy' = IF c.live THEN FALSE ELSE priorityBusy
            /\ UNCHANGED <<editingPerson, formData, detailsVars>>
  /\ UNCHANGED <<storedAgent, results>>
  /\ UNCHANGED EntryOthers

AnswerPersonPriority ==
  \E c \in BagToSet(calls), ok \in BOOLEAN : PersonPriorityAnswered(c, ok)

\* handleChange(key, value): setFormData((prev) => ({...prev, [key]: value}))
handleChange(fd, key, value) == [fd EXCEPT ![key] = value]

FormOthers ==
  <<peopleDb, storedAgent, results, priorityBusy, calls, editingPerson>>

\* the Full Name input
setFullName(v) ==
  /\ formData # NoEdit
  /\ formData' = handleChange(formData, "full_name", v)
  /\ UNCHANGED <<FormOthers, EntryOthers, detailsVars>>

\* the Internal Flags textarea
setInternalFlags(text) ==
  /\ formData # NoEdit
  /\ formData' = handleChange(formData, "internal_flags", splitToArray(text))
  /\ UNCHANGED <<FormOthers, EntryOthers, detailsVars>>

\* the Access Level select: onChange fires when another option is chosen
setAccessLevel(v) ==
  /\ formData # NoEdit
  /\ v # (IF formData.access_level = Undefined THEN "" ELSE formData.access_level)
  /\ formData' = handleChange(formData, "access_level", v)
  /\ UNCHANGED <<FormOthers, EntryOthers, detailsVars>>

\* the "Mark as Person of Interest" checkbox
togglePoiBox ==
  /\ formData # NoEdit
  /\ LET flags == formData.internal_flags
         has == \E i \in DOMAIN flags : flags[i] = "Person of Interest"
     IN  formData' = handleChange(formData, "internal_flags",
                       IF has THEN SelectSeq(uniq(flags),
                                             LAMBDA f : f # "Person of Interest")
                       ELSE uniq(Append(flags, "Person of Interest")))
  /\ UNCHANGED <<FormOthers, EntryOthers, detailsVars>>

\* Submit: handleSubmit, then saveEntry up to the await
handleSubmit ==
  /\ formData # NoEdit
  /\ trimText(formData.full_name) # ""
  /\ CanSend
  /\ editingPerson.id = 0 => Len(peopleDb) < MaxPeople
  /\ calls' = calls (+) SetToBag({
       [kind |-> "save",
        method |-> IF editingPerson.id # 0 THEN "PUT" ELSE "POST",
        id |-> editingPerson.id,
        body |-> SavePayload(Normalized(formData, editingPerson)),
        live |-> TRUE]})
  /\ UNCHANGED <<peopleDb, storedAgent, results, priorityBusy, editingPerson,
                 formData>>
  /\ UNCHANGED <<EntryOthers, detailsVars>>

\* saveEntry after the await
SaveAnswered(c, ok) ==
  /\ c.kind = "save"
  /\ calls' = calls (-) SetToBag({c})
  /\ IF ok
       THEN /\ peopleDb' = IF c.method = "PUT" THEN PeoplePut(peopleDb, c.id, c.body)
                           ELSE PeopleCreate(peopleDb, c.body)
            /\ results' = IF c.method = "PUT" THEN ReplaceRow(results, c.body)
                          ELSE Append(results, peopleDb'[Len(peopleDb')])
            /\ editingPerson' = NoEdit
            /\ formData' = NoEdit
       ELSE UNCHANGED <<peopleDb, results, editingPerson, formData>>
  /\ UNCHANGED <<storedAgent, priorityBusy>>
  /\ UNCHANGED <<EntryOthers, detailsVars>>

AnswerSave ==
  \E c \in BagToSet(calls), ok \in BOOLEAN : SaveAnswered(c, ok)

\* Cancel: onClose
CancelEntry ==
  /\ editingPerson # NoEdit
  /\ editingPerson' = NoEdit
  /\ formData' = NoEdit
  /\ UNCHANGED <<peopleDb, storedAgent, results, priorityBusy, calls>>
  /\ UNCHANGED <<EntryOthers, detailsVars>>


(***************************************************************************)
(* SearchPage: the query input, the debounce timer, loadAll / searchPeople *)
(* and their responses. The backend answers a query from a fixed store.    *)
(***************************************************************************)

\* bound on the requests the page sends
MaxRequests == 3

Named(p, n) == [p EXCEPT !["full_name"] = n]

\* the people the backend holds while the page searches
SearchStore ==
  <<Named(EntryPerson(1, <<>>, "", "minimal"), "Akira"),
    Named(EntryPerson(2, <<>>, "", "minimal"), "Botan")>>

\* the backend's match of a trimmed query against a stored person
Matches(q, p) ==
  CASE q = <<"a">> -> p.full_name = "Akira"
    [] q = <<"b">> -> p.full_name = "Botan"
    [] OTHER -> FALSE

\* GET /api/all for the empty query, POST /api/search otherwise
Response(q) ==
  IF q = <<>> THEN SearchStore
  ELSE SelectSeq(SearchStore, LAMBDA p : Matches(q, p))

\* the "query" parameter the page can be opened with, and the texts typed
InitialQueries == {<<>>, <<"a">>}
QueryInputs == {<<>>, <<"a">>, <<"b", " ">>}

SearchIdle ==
  /\ query = <<>>
  /\ searchParam = <<>>
  /\ timer = "unset"
  /\ searching = FALSE
  /\ issued = <<>>

\* useState initial values: query = initialQuery, searching = false
SearchInit ==
  /\ query \in InitialQueries
  /\ searchParam = query
  /\ timer = "unset"
  /\ searching = FALSE
  /\ issued = <<>>

SearchOthers ==
  <<oldVars, formVars, intelVars, loginVars, peopleDb, storedAgent,
    priorityBusy, calls, editingPerson, formData>>

CanIssue == Len(issued) < MaxRequests

\* loadAll / searchPeople(q) up to the await: setSearching(true) and the fetch
Issue(q) ==
  /\ issued' = Append(issued, [q |-> trim(q), state |-> "flight", got |-> <<>>])
  /\ searching' = TRUE

\* the mount effect (one request) and the first run of the debounce effect
SearchMount ==
  /\ timer = "unset"
  /\ Issue(query)
  /\ timer' = "pending"
  /\ UNCHANGED <<query, searchParam, results, SearchOthers>>

\* onChange of the search input: setQuery; the debounce effect restarts
setQuery(v) ==
  /\ timer # "unset"
  /\ v # query
  /\ query' = v
  /\ timer' = "pending"
  /\ UNCHANGED <<searchParam, searching, issued, results, SearchOthers>>

\* the timeout of the debounce effect: one request, setSearchParams, and the
\* searchParams effect, which puts a changed parameter back into `query`
DebounceFires ==
  /\ timer = "pending"
  /\ CanIssue
  /\ LET trimmed == trim(query)
     IN  /\ Issue(trimmed)
         /\ searchParam' = trimmed
         /\ query' = IF searchParam # trimmed THEN trimmed ELSE query
  /\ timer' = IF query' # query THEN "pending" ELSE "idle"
  /\ UNCHANGED <<results, SearchOthers>>

\* the search button, disabled while searching: searchPeople(query)
ClickSearch ==
  /\ timer # "unset"
  /\ ~searching
  /\ CanIssue
  /\ Issue(query)
  /\ UNCHANGED <<query, searchParam, timer, results, SearchOthers>>

\* loadAll / searchPeople after the await: setResults, then setSearching(false)
Answered(i, ok) ==
  /\ i \in DOMAIN issued
  /\ issued[i].state = "flight"
  /\ results' = IF ok THEN Response(issued[i].q) ELSE <<>>
  /\ issued' = [issued EXCEPT ![i].state = "done", ![i].got = results']
  /\ searching' = FALSE
  /\ UNCHANGED <<query, searchParam, timer, SearchOthers>>


(***************************************************************************)
(* AgentProfile: hasRosterAccess                                           *)
(***************************************************************************)

\* clearance.replace(/\s+/g, "").toLowerCase() on the clearance texts
squeezeLower(c) ==
  CASE c = "Minimal"      -> "minimal"
    [] c = "Confidential" -> "confidential"
    [] c = "Restricted"   -> "restricted"
    [] c = "Classified"   -> "classified"
    [] c = "Operational"  -> "operational"
    [] c = "TopSecret"    -> "topsecret"
    [] c = "Top Secret"   -> "topsecret"
    [] c = "Redline"      -> "redline"
    [] OTHER -> c

hasRosterAccess(c) ==
  LET t == squeezeLower(IF c = Undefined THEN "" ELSE c)
  IN  t = "topsecret" \/ t = "redline"

(***************************************************************************)
(* Login: the two revisions of handleLogin, one expecting {user}, one      *)
(* expecting {user, token}. A request carries the response it will get.    *)
(***************************************************************************)

\* bound on the /api/login requests in flight
MaxLoginReqs == 1

\* what can be typed into the username and password inputs
CredentialInputs == {<<>>, <<" ">>, <<"a">>}

\* the responses of POST /api/login: a failure, or a body with or without a
\* user, a user id and a token
LoginResponses ==
  {[ok |-> FALSE, user |-> NoUser, token |-> NoToken]} \cup
  {[ok |-> TRUE, user |-> u, token |-> t] :
     u \in {NoUser, [AgentOf("Minimal") EXCEPT !.id = ""], AgentOf("Minimal")},
     t \in {NoToken, TokenOf(AgentOf("Minimal"))}}

\* the check of the response (the variant that does not look at the user id)
ValidLogin_anyUser(tokens, resp) ==
  /\ resp.ok
  /\ resp.user # NoUser
  /\ tokens => resp.token # NoToken

\* !(!user?.id) and, in the token revision, !(!token)
ValidLogin(tokens, resp) ==
  /\ resp.ok
  /\ resp.user # NoUser /\ resp.user.id # ""
  /\ tokens => resp.token # NoToken

\* the message of the catch block
FailureMessage(tokens) ==
  IF tokens THEN <<"401 Unauthorized">>
  ELSE <<"Could not connect or invalid credentials.">>

NoLogin == [none |-> TRUE]
LoginSlots == 1..MaxLoginReqs

LoginIdle ==
  /\ loginUsername = <<>>
  /\ loginPassword = <<>>
  /\ loginError = <<>>
  /\ loginReqs = [i \in LoginSlots |-> NoLogin]

\* the app has finished loading without a session and shows /login
LoginInit ==
  /\ user = NoUser
  /\ loadingUser = FALSE
  /\ storedUser = NoItem
  /\ path = "/login"
  /\ nav = Decision("/login", NoUser)
  /\ authToken = NoToken
  /\ storedToken = NoToken
  /\ agentsReqs = {}
  /\ AgentsPageUnmounted
  /\ LoginIdle

LoginOthers ==
  <<guardVars, detailsVars, formVars, intelVars, searchVars, peopleDb, results,
    priorityBusy, calls, editingPerson, formData>>

LoginMounted == ~loadingUser /\ path = "/login"

\* the requests of a Login that unmounts go on; their setError does nothing
Unmounting(reqs) ==
  [i \in LoginSlots |->
     IF reqs[i] = NoLogin THEN NoLogin ELSE [reqs[i] EXCEPT !.live = FALSE]]

setLoginUsername(v) ==
  /\ LoginMounted
  /\ loginUsername' = v
  /\ UNCHANGED <<loginPassword, loginError, loginReqs, storedAgent>>
  /\ UNCHANGED <<appVars, agentsVars, LoginOthers>>

setLoginPassword(v) ==
  /\ LoginMounted
  /\ loginPassword' = v
  /\ UNCHANGED <<loginUsername, loginError, loginReqs, storedAgent>>
  /\ UNCHANGED <<appVars, agentsVars, LoginOthers>>

\* handleLogin up to the await: the blank check, then POST /api/login
handleLogin(tokens, resp) ==
  /\ LoginMounted
  /\ IF trim(loginUsername) = <<>> \/ trim(loginPassword) = <<>>
       THEN /\ loginError' = <<"Please enter username and password.">>
            /\ UNCHANGED loginReqs
       ELSE /\ loginError' = <<>>
            /\ \E i \in LoginSlots :
                 /\ loginReqs[i] = NoLogin
                 /\ \A j \in 1..(i - 1) : loginReqs[j] # NoLogin
                 /\ loginReqs' = [loginReqs EXCEPT ![i] =
                      [username |-> loginUsername, password |-> loginPassword,
                       tokens |-> tokens, resp |-> resp, live |-> TRUE]]
  /\ UNCHANGED <<loginUsername, loginPassword, storedAgent>>
  /\ UNCHANGED <<appVars, agentsVars, LoginOthers>>

\* handleLogin after the await: the catch, the check of the response, or
\* onLogin, the storage writes and navigate("/home"), which unmounts Login
LoginAnswered(i) ==
  /\ loginReqs[i] # NoLogin
  /\ LET r == loginReqs[i] IN
     IF ValidLogin(r.tokens, r.resp)
       THEN /\ loginReqs' = Unmounting([loginReqs EXCEPT ![i] = NoLogin])
            /\ user' = r.resp.user
            /\ storedUser' = StoredJson(r.resp.user)
            /\ storedAgent' = IF r.tokens THEN storedAgent
                              ELSE StoredJson(r.resp.user)
            /\ storedToken' = IF r.tokens THEN r.resp.token ELSE storedToken
            /\ authToken' = IF r.tokens THEN r.resp.token ELSE authToken
            /\ nav' = Decision("/home", r.resp.user)
            /\ Route("/home", r.resp.user)
            /\ loginUsername' = <<>>
            /\ loginPassword' = <<>>
            /\ loginError' = <<>>
            /\ UNCHANGED loadingUser
       ELSE /\ loginReqs' = [loginReqs EXCEPT ![i] = NoLogin]
            /\ loginError' =
                 IF ~r.live THEN loginError
                 ELSE IF r.resp.ok THEN <<"Invalid login response.">>
                 ELSE FailureMessage(r.tokens)
            /\ UNCHANGED <<loginUsername, loginPassword, storedAgent>>
            /\ UNCHANGED <<appVars, agentsVars>>
  /\ UNCHANGED LoginOthers


RestIdle == FormInit /\ IntelIdle /\ EntryIdle /\ SearchIdle /\ LoginIdle

(***************************************************************************)
(* Specifications                                                          *)
(***************************************************************************)

AppIdle ==
  /\ user = NoUser
  /\ loadingUser = TRUE
  /\ storedUser = NoItem
  /\ path = "/login"
  /\ nav = NoNav
  /\ authToken = NoToken
  /\ storedToken = NoToken
  /\ agentsReqs = {}
  /\ AgentsPageUnmounted

GuardInit ==
  /\ gUser \in GuardUsers
  /\ gNeed \in DOMAIN ORDER
  /\ gHas = "unset"
  /\ gOutcome = "unset"

InitGuard == GuardInit /\ AppIdle /\ DetailsInit /\ RestIdle

NextGuard ==
  \/ \E u \in GuardUsers, need \in DOMAIN ORDER : GuardInput(u, need)
  \/ CallHasClearance
  \/ RenderProtectedRoute

SpecGuard == InitGuard /\ [][NextGuard]_vars

Init == AppInit /\ GuardIdle /\ DetailsInit /\ RestIdle

Next ==
  \/ AppMount
  \/ \E p \in Paths : GoTo(p)
  \/ \E c \in LoginClearances : LoginOk(c)
  \/ \E c \in LoginClearances : LoginToken(c)
  \/ Logout
  \/ LogoutToken
  \/ \E rows \in SUBSET RowIds : AgentsLoaded(rows)
  \/ AgentsLoadFailed
  \/ ClickAdd
  \/ \E id \in RowIds : ClickEdit(id)
  \/ \E id \in RowIds : ClickDelete(id)
  \/ AddSubmit
  \/ \E ok \in BOOLEAN, id \in RowIds : AddResponse(ok, id)
  \/ CloseAdd
  \/ EditSubmit
  \/ \E ok \in BOOLEAN : EditResponse(ok)
  \/ CloseEdit
  \/ ConfirmDelete
  \/ \E ok \in BOOLEAN : DeleteResponse(ok)
  \/ CancelDelete

Spec == Init /\ [][Next]_vars

InitDetails == DetailsInit /\ GuardIdle /\ AppIdle /\ RestIdle

NextDetails ==
  \/ OpenDetails
  \/ \E i \in 1..MaxSnapshots : HoverSnapshot(i)
  \/ LeaveSnapshot
  \/ CloseDetails

SpecDetails == InitDetails /\ [][NextDetails]_vars

InitForms ==
  /\ FormInit /\ GuardIdle /\ AppIdle /\ DetailsInit
  /\ IntelIdle /\ EntryIdle /\ SearchIdle /\ LoginIdle

NextForms ==
  \/ OpenAdd
  \/ \E a \in EditTargets : OpenEdit(a)
  \/ \E v \in NameInputs : setName(v)
  \/ \E v \in NameInputs : setUsername(v)
  \/ \E v \in PasswordInputs : setPassword(v)
  \/ \E r \in RANKS : setRank(r)
  \/ \E c \in ClearanceInputs : setClearance(c)
  \/ handleSubmitAdd
  \/ handleSubmitEdit
  \/ \E ok \in BOOLEAN : AddSettled(ok)
  \/ \E ok \in BOOLEAN : EditSettled(ok)
  \/ CancelForm

SpecForms == InitForms /\ [][NextForms]_vars

InitIntel ==
  /\ IntelInit /\ GuardIdle /\ AppIdle /\ DetailsInit
  /\ FormInit /\ EntryIdle /\ SearchIdle /\ LoginIdle

NextIntel ==
  \/ IntelLoaded
  \/ SelectIntel
  \/ toggleHighPriority
  \/ \E text \in FlagTexts : addFlag(text)
  \/ removeShownFlag
  \/ AnswerPriority
  \/ AnswerPutFlags
  \/ AnswerRefresh
  \/ CloseIntel
  \/ openEditFromDetails
  \/ \E v \in TitleInputs : setETitle(v)
  \/ saveEdit
  \/ \E ok \in BOOLEAN : SaveEditAnswered(ok)
  \/ CancelEdit

SpecIntel == InitIntel /\ [][NextIntel]_vars

InitEntry ==
  /\ EntryInit /\ GuardIdle /\ DetailsInit
  /\ FormInit /\ IntelIdle /\ SearchIdle /\ LoginIdle

NextEntry ==
  \/ PeopleLoaded
  \/ \E i \in 1..MaxPeople : ViewRow(i)
  \/ CloseRow
  \/ EditRow
  \/ NewEntry
  \/ togglePersonPriority
  \/ AnswerPersonPriority
  \/ \E v \in FullNameInputs : setFullName(v)
  \/ \E text \in FlagsTextInputs : setInternalFlags(text)
  \/ \E v \in AccessLevelInputs : setAccessLevel(v)
  \/ togglePoiBox
  \/ handleSubmit
  \/ AnswerSave
  \/ CancelEntry

SpecEntry == InitEntry /\ [][NextEntry]_vars

InitSearch ==
  /\ SearchInit /\ EntryIdle /\ GuardIdle /\ AppIdle /\ DetailsInit
  /\ FormInit /\ IntelIdle /\ LoginIdle

NextSearch ==
  \/ SearchMount
  \/ \E v \in QueryInputs : setQuery(v)
  \/ DebounceFires
  \/ ClickSearch
  \/ \E i \in 1..MaxRequests, ok \in BOOLEAN : Answered(i, ok)

SpecSearch == InitSearch /\ [][NextSearch]_vars

InitLogin ==
  /\ LoginInit /\ GuardIdle /\ DetailsInit /\ FormInit /\ IntelIdle
  /\ EntryIdle /\ SearchIdle

NextLogin ==
  \/ \E v \in CredentialInputs : setLoginUsername(v)
  \/ \E v \in CredentialInputs : setLoginPassword(v)
  \/ \E tokens \in BOOLEAN, resp \in LoginResponses : handleLogin(tokens, resp)
  \/ \E i \in LoginSlots : LoginAnswered(i)
  \/ Logout
  \/ LogoutToken

SpecLogin == InitLogin /\ [][NextLogin]_vars

(***************************************************************************)
(* Properties                                                              *)
(***************************************************************************)

\* the five agent clearance tiers, lowest first
TierOrder == <<"Minimal", "Restricted", "Operational", "TopSecret", "Redline">>

Tiers == {TierOrder[i] : i \in DOMAIN TierOrder}

TierIndex(t) == CHOOSE i \in DOMAIN TierOrder : TierOrder[i] = t

HasTier(u) == u # NoUser /\ u.clearance \in Tiers

\* C1: for an agent holding one of the five tiers a and a required tier b,
\* hasClearance answers true exactly when a is at or above b in the order
\* Minimal < Restricted < Operational < TopSecret < Redline.
C1_HasClearanceTruthTable ==
  (gHas # "unset" /\ HasTier(gUser)) =>
    (gHas = "true" <=> TierIndex(gUser.clearance) >= TierIndex(gNeed))

\* an equal pair (the diagonal of the table) has been decided
C1_Witness ==
  /\ gHas = "true"
  /\ gUser = AgentOf("Operational")
  /\ gNeed = "Operational"

\* C2: ProtectedRoute redirects to /login when the user is absent, renders its
\* children exactly when the user's tier is at or above the required tier,
\* and redirects to /home otherwise.
C2_ProtectedRouteOutcome ==
  (gOutcome # "unset" /\ (gUser = NoUser \/ HasTier(gUser))) =>
    gOutcome = IF gUser = NoUser THEN "/login"
               ELSE IF TierIndex(gUser.clearance) >= TierIndex(gNeed) THEN "children"
               ELSE "/home"

\* an Operational agent has been turned away from a TopSecret route
C2_Witness ==
  /\ gUser = AgentOf("Operational")
  /\ gNeed = "TopSecret"
  /\ gOutcome = "/home"

\* the minimum clearances the route table is said to enforce
ClaimedNeed ==
  [p \in {"/search", "/poi", "/intel", "/agents"} |->
     CASE p = "/search" -> "Minimal"
       [] p = "/poi"    -> "Restricted"
       [] p = "/intel"  -> "Operational"
       [] p = "/agents" -> "TopSecret"]

\* C3: /search, /poi, /intel and /agents admit an agent exactly when the
\* agent's tier is at or above Minimal, Restricted, Operational and TopSecret
\* respectively: every decision the router takes for a tiered agent, the page
\* the agent is on, and the set of routes the agent can enter agree with that.
C3_RouteTable ==
  /\ (nav.target \in DOMAIN ClaimedNeed /\ HasTier(nav.who)) =>
       (nav.outcome = "children"
          <=> TierIndex(nav.who.clearance) >= TierIndex(ClaimedNeed[nav.target]))
  /\ (~loadingUser /\ path \in DOMAIN ClaimedNeed /\ HasTier(user)) =>
       TierIndex(user.clearance) >= TierIndex(ClaimedNeed[path])
  /\ (~loadingUser /\ HasTier(user)) =>
       {r \in DOMAIN ClaimedNeed : Resolve(r, user, FALSE) = r}
         = {r \in DOMAIN ClaimedNeed :
              TierIndex(ClaimedNeed[r]) <= TierIndex(user.clearance)}

\* an Operational agent asked for /agents and was sent to /home
C3_Witness ==
  /\ nav.target = "/agents"
  /\ nav.who = AgentOf("Operational")
  /\ nav.outcome = "/home"
  /\ path = "/home"

MutatingMethods == {"POST", "PUT", "DELETE"}

\* C4: roster administration is authorized only for a Redline session agent;
\* for any other viewer the Add, Edit and Delete buttons are present and
\* disabled, no modal or confirmation is open, and no POST, PUT or DELETE to
\* /api/agents has been sent on that viewer's behalf.
C4_RosterAdminRedlineOnly ==
  /\ (OnAgentsPage /\ user.clearance # "Redline") =>
       /\ AddButton(user) = [present |-> TRUE, disabled |-> TRUE]
       /\ CardsRendered => CardButtons(user) = [present |-> TRUE, disabled |-> TRUE]
       /\ ~adding
       /\ editing = 0
       /\ pendingDeleteId = 0
  /\ \A r \in agentsReqs : r[1] \in MutatingMethods => r[2] = "Redline"

\* a TopSecret viewer is on the roster with cards shown and has clicked Delete
C4_Witness ==
  /\ OnAgentsPage
  /\ user = AgentOf("TopSecret")
  /\ CardsRendered
  /\ uiEvent = "delete"

UnknownUser(u) == u # NoUser /\ u.clearance \notin Tiers

TopViewer ==
  CHOOSE v \in DOMAIN CLEARANCE_RANK :
    \A w \in DOMAIN CLEARANCE_RANK : CLEARANCE_RANK[w] <= CLEARANCE_RANK[v]

Viewer == DefaultViewer(viewerClearance)

\* C6: a record with access_level 'redline' is denied to a 'handler' viewer and
\* allowed to the top-tier viewer.
C6_RedlineRecordTwoViewers ==
  (DetailsOpen /\ person.access_level = "redline") =>
    /\ Viewer = "handler" => ~allowed
    /\ Viewer = TopViewer => allowed

\* the seven access levels, lowest first
AccessOrder == <<"minimal", "confidential", "restricted", "classified",
                 "operational", "topsecret", "redline">>

AccessIndex(a) == CHOOSE i \in DOMAIN AccessOrder : AccessOrder[i] = a

\* C7: over the seven access levels and all viewer tiers canView is the rank
\* comparison, raising the viewer tier never removes access, and the top
\* viewer tier is authorized for every access level.
C7_CanViewMonotoneAndReachable ==
  (DetailsOpen /\ person.access_level \in DOMAIN ACCESS_RANK) =>
    /\ allowed <=> CLEARANCE_RANK[Viewer] >= AccessIndex(person.access_level) - 1
    /\ \A w \in DOMAIN CLEARANCE_RANK :
         (allowed /\ CLEARANCE_RANK[w] >= CLEARANCE_RANK[Viewer]) => canView(person, w)
    /\ canView(person, TopViewer)

GatedFields == {"cctv_snapshots", "intercepted_audio", "blackmail_material",
                "personality_notes", "behavioral_patterns", "internal_flags",
                "linked_reports"}

Empty(f) == IF f \in ListFields THEN <<>> ELSE ""

\* what the view renders for a field: its slot, or nothing when it has none
Slot(f) == IF f \in DOMAIN view THEN view[f] ELSE Null

\* C8: when canView is false every gated field that has content is rendered
\* as the REDACTED marker.
C8_DeniedGatedFieldsRedacted ==
  (DetailsOpen /\ ~allowed) =>
    \A f \in GatedFields : person[f] # Empty(f) => Slot(f)[1] = "redacted"

\* C9: for a denied viewer, replacing the content of a gated field by other
\* content leaves the rendered view unchanged; linked reports and the High
\* Priority badge are not shown.
C9_GatedFieldsNonInterference ==
  (DetailsOpen /\ ~allowed) =>
    /\ \A f \in GatedFields : \A v \in FieldValues(f) :
         person[f] # Empty(f) =>
           PersonDetails([person EXCEPT ![f] = v], viewerClearance, previewUrl) = view
    /\ view.linked_reports[1] # "shown"
    /\ view.high_priority_badge = Null

UngatedFields == {"full_name", "gang_affiliation", "known_associates",
                  "organization_ties", "recent_contacts", "last_known_location",
                  "known_vehicles", "radio_frequencies", "tracked_devices",
                  "recent_movements"}

\* C10: what is rendered for a never-gated field is decided by the content of
\* that field alone, whatever the viewer tier and the access_level of the
\* record: a field with content is shown with that content, an empty one
\* renders nothing, and none is ever redacted.
C10_UngatedFieldsIndependentOfCanView ==
  DetailsOpen =>
    \A f \in UngatedFields :
      IF person[f] # Empty(f)
        THEN view[f][1] = "shown" /\ view[f][3] = person[f]
        ELSE view[f] = Null

\* a denied viewer is looking at a record that has a location
C10_Witness ==
  /\ DetailsOpen
  /\ ~allowed
  /\ person.last_known_location # ""
  /\ view.last_known_location = Shown("Location", person.last_known_location)

\* C11: a record whose access_level is missing or not a recognized level gets,
\* for every viewer tier, the result canView gives a 'minimal' record.
C11_UnknownAccessLevelAsMinimal ==
  (DetailsOpen /\ person.access_level \notin DOMAIN ACCESS_RANK) =>
    allowed = canView([person EXCEPT !["access_level"] = "minimal"], viewerClearance)

\* C12: every agent created or updated through the Add Agent and Edit Agent
\* forms is submitted with a clearance that is a key of ORDER.
C12_FormClearanceRecognized ==
  agentReq # NoReq => agentReq.body.clearance \in DOMAIN ORDER

\* the 'High Priority' tag and the high_priority_at stamp go together
TagMatchesStamp(rec) == isHighPriority(rec) <=> rec.high_priority_at # ""

\* the record carries the flag, compared as removeFlag compares flags
Carries(rec, flag) ==
  \E i \in DOMAIN rec.internal_flags : eqFlag(rec.internal_flags[i], flag)

SameFlagState(a, b) ==
  /\ {a.internal_flags[i] : i \in DOMAIN a.internal_flags} =
       {b.internal_flags[i] : i \in DOMAIN b.internal_flags}
  /\ isHighPriority(a) = isHighPriority(b)
  /\ a.high_priority_at = b.high_priority_at

\* C18: the save of the edit form writes the internal_flags and the
\* high_priority_at the backend holds at that moment, so editing the text
\* fields leaves the flags and the High Priority state unchanged.
C18_SaveKeepsFlags ==
  [][(saveReq # NoDoc /\ saveReq' = NoDoc) =>
       /\ intelDb'.internal_flags = intelDb.internal_flags
       /\ intelDb'.high_priority_at = intelDb.high_priority_at]_vars

\* C20: adding a flag the record already carries (compared as on removal,
\* 'High Priority' included) leaves the flag set and the High Priority state
\* of the record unchanged.
C20_AddCarriedFlagIdempotent ==
  [][\A op \in BagToSet(ops) :
       (/\ op.by = "addFlag"
        /\ op.stage = "send"
        /\ Carries(intelDb, op.flag)
        /\ CopiesIn(op, ops') < CopiesIn(op, ops))
       => SameFlagState(intelDb', intelDb)]_vars

\* C13: whatever flag mutations the client has made, a stored Person or Intel
\* record has the 'High Priority' tag exactly when it has a high_priority_at
\* stamp.
C13_TagIffStamp ==
  /\ intelDb # NoDoc => TagMatchesStamp(intelDb)
  /\ \A i \in DOMAIN peopleDb : TagMatchesStamp(peopleDb[i])

\* C15: on the Search and Persons-of-Interest pages the details of a person
\* are gated with the tier of the logged-in agent, so an agent of the highest
\* clearance sees the sensitive fields of every record.
C15_ViewerIsLoggedInAgent ==
  (DetailsOpen /\ path \in {"/search", "/poi"} /\ user.clearance = "Redline")
    => allowed

\* C14: the route decision comes before any data fetch. A denied request
\* (redirect to /login or /home) leaves the requested page unmounted; the
\* roster state exists only on /agents, and every GET /api/agents was sent for
\* a session agent of clearance TopSecret or Redline.
C14_DecisionBeforeFetch ==
  /\ \A r \in agentsReqs : r[1] = "GET" => r[2] \in {"TopSecret", "Redline"}
  /\ nav.outcome \in {"/login", "/home"} => path # nav.target
  /\ (~loadingUser /\ path = "/agents") =>
       user # NoUser /\ ClearanceRank(user.clearance) >= ORDER["TopSecret"]
  /\ path # "/agents" => (loading /\ agents = {} /\ ~error)

\* a cleared agent has loaded the roster, and a later request of /agents by
\* an Operational agent was sent to /home
C14_Witness ==
  /\ nav = Decision("/agents", AgentOf("Operational"))
  /\ nav.outcome = "/home"
  /\ path = "/home"
  /\ <<"GET", "TopSecret">> \in agentsReqs

\* C16: with a valid stored session, loading the app on a protected route the
\* agent is cleared for admits the agent there, and no step of the load
\* redirects to /login.
C16_RestoreNeverRedirectsToLogin ==
  [][(/\ loadingUser
      /\ storedUser.kind = "json"
      /\ path \in ProtectedPaths
      /\ ClearanceRank(storedUser.agent.clearance) >= ORDER[RouteNeed[path]])
     => (path' = path /\ nav'.outcome # "/login")]_vars

\* C17: after a logout the api client holds no token: its token is null and
\* equals the stored token, and withAuth attaches no Authorization header.
C17_LogoutClearsToken ==
  [][(user # NoUser /\ user' = NoUser) =>
       /\ authToken' = NoToken
       /\ authToken' = storedToken'
       /\ withAuth(authToken') = NoHeader]_vars

\* C19: once every request has completed, the results shown are the response
\* to the query issued last, and `searching` is true while a request is in
\* flight.
C19_LastQueryWins ==
  /\ (issued # <<>> /\ \A i \in DOMAIN issued : issued[i].state = "done")
       => results = issued[Len(issued)].got
  /\ (\E i \in DOMAIN issued : issued[i].state = "flight") => searching

\* C28: every password the Add Agent or Edit Agent form sends has at least
\* MIN_PASSWORD_LENGTH characters, and the Edit form sends no password field
\* when its password input is blank.
C28_SentPasswordLongEnough ==
  agentReq # NoReq =>
    /\ "password" \in DOMAIN agentReq.body
         => Len(agentReq.body.password) >= MIN_PASSWORD_LENGTH
    /\ (agentReq.method = "PUT" /\ trim(password) = <<>>)
         => "password" \notin DOMAIN agentReq.body

\* C27: every record the entry form submits carries one of the seven
\* recognized access levels ('minimal' when none is chosen), whatever was
\* selected in the Access Level dropdown before.
C27_SubmittedAccessLevelRecognized ==
  \A c \in BagToSet(calls) :
    c.kind = "save" => c.body.access_level \in DOMAIN ACCESS_RANK

\* C26: the created_by / updated_by stamped on a person that is created or
\* edited is the display name of the agent logged in at that moment, never
\* empty and never another agent's name.
C26_AttributionIsLoggedInAgent ==
  \A c \in BagToSet(calls) :
    c.kind = "save" =>
      /\ c.method = "POST" => c.body.created_by = user.name
      /\ c.method = "PUT" => c.body.updated_by = user.name

\* C21: in the intel details modal at most one High Priority request of the
\* open record is in flight at any time, whichever control sent it (the quick
\* toggle, adding the 'High Priority' flag, removing the 'High Priority' chip).
C21_OnePriorityRequestInFlight ==
  LET inFlight == {o \in BagToSet(ops) :
                     o.kind = "priority" /\ o.stage = "send" /\ o.live}
  IN  /\ Cardinality(inFlight) <= 1
      /\ \A o \in inFlight : CopiesIn(o, ops) <= 1

\* C23: for every clearance the Add / Edit Agent forms assign, the profile
\* page's hasRosterAccess is true exactly when the route guard
\* hasClearance(agent, 'TopSecret') is true.
C23_RosterChecksAgree ==
  agentReq # NoReq =>
    (hasRosterAccess(agentReq.body.clearance)
       <=> hasClearance(AgentOf(agentReq.body.clearance), "TopSecret"))

\* C22: with no agent logged in and the session load finished, only the login
\* page is shown: every protected route resolves to /login, /home navigates
\* away to the default route, an unknown path resolves to /login, and the
\* roster is not rendered.
C22_OnlyLoginWithoutAgent ==
  (~loadingUser /\ user = NoUser) =>
    /\ path = "/login"
    /\ \A p \in ProtectedPaths : Resolve(p, user, loadingUser) = "/login"
    /\ RouteOnce("/home", user, loadingUser) = "/"
    /\ Resolve("/home", user, loadingUser) = "/login"
    /\ Resolve("/", user, loadingUser) = "/login"
    /\ loading /\ agents = {}

\* a logged-out visitor has asked for /intel and has been sent to /login
C22_Witness ==
  /\ ~loadingUser
  /\ user = NoUser
  /\ nav = Decision("/intel", NoUser)
  /\ path = "/login"

\* C25: a logout leaves the app's user null, the 'user' and 'token' items
\* removed from local storage and the location on /login.
C25_LogoutCompletes ==
  [][(user # NoUser /\ user' = NoUser) =>
       /\ storedUser' = NoItem
       /\ storedToken' = NoToken
       /\ path' = "/login"]_vars

\* C24: a login attempt establishes a session only from a valid response. No
\* request is sent with a blank (trimmed) username or password; an attempt
\* answered with a failure, or with a body lacking the user id (or the token,
\* where one is expected), leaves the user, the stored items, the token and
\* the location as they were and sets an error message in the form; the user
\* becomes non-null only by a response carrying a user with an id.
C24_SessionOnlyFromValidResponse ==
  /\ [](\A i \in LoginSlots :
          loginReqs[i] # NoLogin =>
            trim(loginReqs[i].username) # <<>> /\ trim(loginReqs[i].password) # <<>>)
  /\ [][\A i \in LoginSlots :
          (loginReqs[i] # NoLogin /\ loginReqs'[i] = NoLogin) =>
            LET r == loginReqs[i] IN
            IF r.resp.ok /\ r.resp.user # NoUser /\ r.resp.user.id # ""
               /\ (r.tokens => r.resp.token # NoToken)
              THEN user' = r.resp.user
              ELSE /\ UNCHANGED <<user, storedUser, storedAgent, storedToken,
                                  authToken, path>>
                   /\ r.live => loginError' # <<>>]_vars
  /\ [][(user = NoUser /\ user' # NoUser) =>
          \E i \in LoginSlots :
            /\ loginReqs[i] # NoLogin /\ loginReqs'[i] = NoLogin
            /\ loginReqs[i].resp.ok
            /\ loginReqs[i].resp.user.id # ""
            /\ user' = loginReqs[i].resp.user]_vars

\* a response without a user id has been refused: the form shows the error
\* and there is no session
C24_Witness ==
  /\ loginError = <<"Invalid login response.">>
  /\ user = NoUser
  /\ storedUser = NoItem
  /\ path = "/login"

====
